---------------------------- MODULE Spec2Model ----------------------------
(***************************************************************************)
(* Model of the resilience and monitoring core of CloudDataOrchestrator:   *)
(* CircuitBreaker, RetryHandler, FallbackHandler and ResilienceManager     *)
(* (src/utils/resilience.py), MemoryCache (src/utils/cache.py) and the     *)
(* cooldown logic of AlertManager (src/utils/alerts.py).                   *)
(*                                                                         *)
(* Time is an integer clock `now` (datetime.now()).  Each component has    *)
(* its own specification over the shared variables; the variables of the   *)
(* other components keep their initial value there.                        *)
(***************************************************************************)
EXTENDS Integers, Sequences, FiniteSets, TLC

VARIABLES
    now,        \* datetime.now(), in clock units
    cb,         \* the CircuitBreaker instance: its configuration and fields
    pc,         \* position of the (single) caller of CircuitBreaker.call
    lastAct,    \* observer: the step taken last
    outcome,    \* observer: how the last completed call ended
    invoked,    \* observer: invocations of the operation by the last completed call
    streak,     \* observer: expected failures of the operation since the last success / reset
    trials,     \* observer: invocations admitted since the breaker last became HalfOpen
    trialFailedAt, \* observer: time of the failed HalfOpen trial that reopened the breaker
    ncalls,     \* observer: calls made so far
    max_attempts,  \* RetryHandler.max_attempts
    script,     \* what the operation does at its 1st, 2nd, ... invocation of the call at hand
    retried,    \* what the retry wrapper did with it: result, invocations, sleeps
    cfg,        \* ResilienceManager: which handlers resilient_call is given
    alwaysRaised,  \* observer: every invocation of the operation so far raised a transient error
    max_size,   \* MemoryCache.max_size
    default_ttl,   \* MemoryCache.default_ttl
    cache,      \* MemoryCache.cache: the OrderedDict's items, oldest first
    ret,        \* what the last cache operation returned, as a sequence: << >> for None
    touchOrder, \* observer: the keys in the order of their last set or get hit
    arg,        \* observer: the arguments of the last set (key, value, ttl) or get (key)
    did,        \* observer: the last cache operation ("evict" for a set that evicted; "hit", "miss", "expired" for a get;
                \* "keys", "exists", "stats" for the accessors; "other" for delete, clear and cleanup_expired)
    alert_rules,    \* AlertManager.alert_rules
    rule_cooldowns, \* AlertManager.rule_cooldowns: rule name -> time of the last firing, or None
    alerts,         \* the Alert objects created so far, in the order of creation
    alert_history,  \* AlertManager.alert_history: the objects, as indices into alerts
    active_alerts,  \* AlertManager.active_alerts: alert id -> object
    passPos,        \* check_alerts: 0 between two passes, else the index of the rule at hand
    passPhase,      \* check_alerts: "eval" before the rule's test, "notify" after _create_alert
    sent,           \* observer: the channels the last _send_notifications tried, and those that raised
    alertRet,       \* what acknowledge_alert or resolve_alert returned last
    current_value,  \* observer: what _get_metric_value returns to the rule at hand
    branch,         \* observer: where the last step of check_alerts left the loop body
    fallback_func,  \* FallbackHandler.fallback_func
    fallback_value, \* FallbackHandler.fallback_value
    opDoes,         \* what the function wrapped by the fallback handler does
    callArgs,       \* the arguments of the call of the wrapper
    wrapped,        \* what the wrapper did: its result and the calls of fallback_func
    last_collected_data, \* IntegratedSystem.cache: the entry of key "last_collected_data"
    pipelineResult, \* what run_data_collection_pipeline returned last
    usedFallback,   \* observer: the collection failed and cache_fallback supplied the data
    series,         \* the data handed to the anomaly detector
    zscore,         \* what _z_score_detection returned for series
    config,         \* AnomalyDetector.config: the metrics with a configuration of their own
    models,         \* AnomalyDetector.models: the metrics with a trained model
    last_training,  \* AnomalyDetector.last_training: metric -> time of training
    anomaly_history,\* AnomalyDetector.anomaly_history
    detectRet,      \* what the last detect_anomalies did
    tpc,            \* concurrent callers: thread -> the statement it is at
    tlocal,         \* concurrent callers: thread -> its arguments and local variables
    is_running,     \* CloudDataOrchestratorV2.is_running
    health_status,  \* CloudDataOrchestratorV2.health_status
    present,        \* the optional components the configuration enables
    broken,         \* the components whose calls raise
    phase,          \* start(): "new" before it, "started" or "failed" after
    wpc,            \* worker -> "none" (no such thread), "test", "body", "recover", "done"
    stopPc,         \* stop(): "none" before it, the join at hand, "returned"
    joins,          \* the joins stop() has made
    sample,         \* observer: what the last monitoring pass sampled: "failed" (the pass
                    \* raised before the check), "unreadable" (the pipeline metrics
                    \* raised), "exceeds" (some value above its threshold), "within"
    handled,        \* the exceptions tuple of a retry handler around CircuitBreaker.call
    loopAttempt,    \* that handler's loop: 0 outside a call, else the attempt at hand
    rejRetried,     \* observer: the rejections of the breaker that handler retried
    sweeps,         \* observer: the sweeps the last _maintenance ran, in their order
    window,         \* the window_size _prepare_features is called with
    features,       \* observer: the rows _prepare_features returned
    scored,         \* what _detect_with_ml_model did with them: the rows marked, the results
    system_metrics, \* _ml_worker: the sample of the iteration at hand
    mlPos,          \* _ml_worker: the entries of metrics_to_check it has gone through
    anomalies_detected, \* CloudDataOrchestratorV2.stats["anomalies_detected"]
    spawned,        \* the calls of start() that started worker threads
    startRet,       \* observer: what the last start() did: "spawned", "ignored"
    memory_cache,   \* Cache.memory_cache: the items of the memory tier, oldest first
    persistent_cache \* Cache.persistent_cache: the items of its inner MemoryCache

\* ------------------------------------------------------------------ bounds
MaxTime      == 3   \* the clock stops here
MaxCalls     == 4   \* calls of CircuitBreaker.call per behaviour
MaxThreshold == 2   \* failure_threshold ranges over 1..MaxThreshold
MaxTimeout   == 2   \* recovery_timeout ranges over 0..MaxTimeout
MaxAttempts  == 3   \* max_attempts ranges over 1..MaxAttempts
MaxTopCalls  == 6   \* calls of ResilienceManager.resilient_call per behaviour
MaxSize      == 2   \* max_size ranges over 1..MaxSize
MaxTTL       == 1   \* a ttl ranges over 0..MaxTTL
MaxCacheTime == 1   \* the clock of the cache stops here
MaxAlerts    == 2   \* check_alerts is followed up to this many Alert objects
MaxAlertTime == 1   \* the clock of the alert manager stops here
MaxCooldown  == 1   \* cooldown_minutes ranges over 1..MaxCooldown
MaxRuns      == 6   \* run_data_collection_pipeline is called up to MaxRuns times
MaxPipeTime  == 2   \* the clock of the pipeline stops here, in hours
MaxRepeat    == 99  \* a series starts with up to MaxRepeat equal values
MaxTail      == 2   \* and ends with up to MaxTail values of any kind
MaxSeries    == 11  \* detect_anomalies gets up to MaxSeries values 50, then maybe a 500
MaxHistory   == 1   \* anomaly_history holds up to MaxHistory results
MaxDetectTime == 2  \* the clock of the detector stops here, in retrain intervals
MaxThreads   == 2   \* concurrent callers of one object
MaxWindow    == 3   \* window_size of the feature windows ranges over 1..MaxWindow
MaxPoints    == 4   \* the series of the feature windows have up to MaxPoints values
MaxStarts    == 2   \* start() starts the worker threads up to MaxStarts times

\* last_failure_time = None
None == -1

\* ---------------------------------------------------------- CircuitBreaker
\* CircuitBreaker.__init__
CircuitBreaker(threshold, timeout) ==
    [ failure_threshold |-> threshold,
      recovery_timeout  |-> timeout,
      state             |-> "closed",
      failure_count     |-> 0,
      last_failure_time |-> None,
      success_count     |-> 0 ]

\* CircuitBreaker._on_success
_on_success(b) ==
    [ b EXCEPT !.failure_count = 0,
               !.success_count = b.success_count + 1,
               !.state = IF b.state = "half_open" THEN "closed" ELSE b.state ]

\* A breaker that trips only above the threshold.
_on_failure_gt(b, t) ==
    [ b EXCEPT !.failure_count = b.failure_count + 1,
               !.last_failure_time = t,
               !.state = IF b.failure_count + 1 > b.failure_threshold
                         THEN "open" ELSE b.state ]

\* A breaker whose failures do not restart the recovery timer.
_on_failure_keeps_time(b, t) ==
    [ b EXCEPT !.failure_count = b.failure_count + 1,
               !.last_failure_time =
                    IF b.last_failure_time = None THEN t ELSE b.last_failure_time,
               !.state = IF b.failure_count + 1 >= b.failure_threshold
                         THEN "open" ELSE b.state ]

\* CircuitBreaker._on_failure, at time t
_on_failure(b, t) ==
    [ b EXCEPT !.failure_count = b.failure_count + 1,
               !.last_failure_time = t,
               !.state = IF b.failure_count + 1 >= b.failure_threshold
                         THEN "open" ELSE b.state ]

\* A breaker that probes as soon as it has failed once, whatever the timeout.
_should_attempt_reset_any(b, t) == b.last_failure_time # None

\* CircuitBreaker._should_attempt_reset, at time t
_should_attempt_reset(b, t) ==
    IF b.last_failure_time = None
    THEN FALSE
    ELSE t - b.last_failure_time >= b.recovery_timeout

\* CircuitBreaker.reset
reset(b) ==
    [ b EXCEPT !.state = "closed",
               !.failure_count = 0,
               !.success_count = 0,
               !.last_failure_time = None ]

\* The entry of CircuitBreaker.call (the test of the state before the try):
\* "rejected" when the breaker raises its OPEN exception, else the breaker
\* with which the wrapped function is invoked.
Admit(b, t) ==
    IF b.state = "open"
    THEN IF _should_attempt_reset(b, t)
         THEN [ admitted |-> TRUE, b |-> [ b EXCEPT !.state = "half_open" ] ]
         ELSE [ admitted |-> FALSE, b |-> b ]
    ELSE [ admitted |-> TRUE, b |-> b ]

\* An exit of call that counts every exception as a failure.
Settle_counts_all(b, o, t) ==
    CASE o = "ok" -> _on_success(b)
      [] OTHER    -> _on_failure(b, t)

\* The exit of CircuitBreaker.call: the wrapped function returned ("ok") or
\* raised an exception of the expected set ("expected") or another one
\* ("unexpected", which no except clause catches).
Settle(b, o, t) ==
    CASE o = "ok"       -> _on_success(b)
      [] o = "expected" -> _on_failure(b, t)
      [] OTHER          -> b

Outcomes == { "ok", "expected", "unexpected" }

breakerObs == << lastAct, outcome, invoked, streak, trials, trialFailedAt, ncalls >>
retryVars == << max_attempts, script, retried >>
managerVars == << cfg, alwaysRaised >>
cacheVars == << max_size, default_ttl, cache, ret, touchOrder, arg, did >>
alertVars == << alert_rules, rule_cooldowns, alerts, alert_history, active_alerts,
               passPos, passPhase, sent, alertRet, current_value, branch >>
fallbackVars == << fallback_func, fallback_value, opDoes, callArgs, wrapped >>
pipelineVars == << last_collected_data, pipelineResult, usedFallback >>
zscoreVars == << series, zscore >>
detectorVars == << config, models, last_training, anomaly_history, detectRet >>
anomalyVars == << zscoreVars, detectorVars >>
threadVars == << tpc, tlocal >>
orchVars == << is_running, health_status, present, broken, phase, wpc, stopPc, joins,
              sample >>
nestVars == << handled, loopAttempt, rejRetried >>
featureVars == << window, features, scored >>
mlVars == << system_metrics, mlPos, anomalies_detected >>
restartVars == << spawned, startRet >>
facadeVars == << memory_cache, persistent_cache >>
moreVars == << mlVars, restartVars, facadeVars >>
auxVars == << sweeps, featureVars, moreVars >>
systemVars == << threadVars, orchVars, nestVars, auxVars >>
restVars == << fallbackVars, pipelineVars, anomalyVars, systemVars >>
vars == << now, cb, pc, breakerObs, retryVars, managerVars, cacheVars, alertVars, restVars >>

\* The components a specification does not run stay as they are.
RetryIdle == max_attempts = 1 /\ script = << >> /\ retried = << >>
ManagerIdle == cfg = << >> /\ alwaysRaised = TRUE
FallbackIdle ==
    /\ fallback_func = "None"
    /\ fallback_value = "None"
    /\ opDoes = "ok"
    /\ callArgs = "x"
    /\ wrapped = << >>
PipelineIdle ==
    /\ last_collected_data = << >>
    /\ pipelineResult = << >>
    /\ usedFallback = FALSE
ZScoreIdle == series = << >> /\ zscore = << >>
DetectorIdle ==
    /\ config = << >>
    /\ models = { }
    /\ last_training = << >>
    /\ anomaly_history = << >>
    /\ detectRet = << >>
AnomalyIdle == ZScoreIdle /\ DetectorIdle
ThreadIdle == tpc = << >> /\ tlocal = << >>
OrchIdle ==
    /\ is_running = FALSE
    /\ health_status = "healthy"
    /\ present = { }
    /\ broken = { }
    /\ phase = "new"
    /\ wpc = << >>
    /\ stopPc = "none"
    /\ joins = 0
    /\ sample = "none"
NestIdle == handled = { } /\ loopAttempt = 0 /\ rejRetried = 0
FeatureIdle == window = 1 /\ features = << >> /\ scored = << >>
MlIdle == system_metrics = << >> /\ mlPos = 0 /\ anomalies_detected = 0
RestartIdle == spawned = 0 /\ startRet = "none"
FacadeIdle == memory_cache = << >> /\ persistent_cache = << >>
MoreIdle == MlIdle /\ RestartIdle /\ FacadeIdle
AuxIdle == sweeps = << >> /\ FeatureIdle /\ MoreIdle
SystemIdle == ThreadIdle /\ OrchIdle /\ NestIdle /\ AuxIdle
RestIdle == FallbackIdle /\ PipelineIdle /\ AnomalyIdle /\ SystemIdle
AlertIdle ==
    /\ alert_rules = << >>
    /\ rule_cooldowns = << >>
    /\ alerts = << >>
    /\ alert_history = << >>
    /\ active_alerts = << >>
    /\ passPos = 0
    /\ passPhase = "eval"
    /\ sent = [ attempted |-> << >>, failed |-> { } ]
    /\ alertRet = FALSE
    /\ current_value = None
    /\ branch = "none"
CacheIdle ==
    /\ max_size = 1
    /\ default_ttl = 1
    /\ cache = << >>
    /\ ret = << >>
    /\ touchOrder = << >>
    /\ arg = << >>
    /\ did = "none"

\* The breaker is created by its constructor.
InitBreaker ==
    /\ now = 0
    /\ \E th \in 1..MaxThreshold, to \in 0..MaxTimeout : cb = CircuitBreaker(th, to)
    /\ pc = "idle"
    /\ lastAct = "init"
    /\ outcome = "none"
    /\ invoked = 0
    /\ streak = 0
    /\ trials = 0
    /\ trialFailedAt = None
    /\ ncalls = 0
    /\ RetryIdle
    /\ ManagerIdle
    /\ CacheIdle
    /\ AlertIdle
    /\ RestIdle

\* CircuitBreaker.call up to the invocation of func: an Open breaker either
\* becomes HalfOpen or raises without invoking func.
CallEnter ==
    /\ pc = "idle"
    /\ ncalls < MaxCalls
    /\ ncalls' = ncalls + 1
    /\ LET a == Admit(cb, now) IN
       /\ cb' = a.b
       /\ IF a.admitted
          THEN /\ pc' = "running"
               /\ lastAct' = "enter"
               /\ trials' = IF a.b.state = "half_open" THEN trials + 1 ELSE 0
               /\ UNCHANGED << outcome, invoked >>
          ELSE /\ pc' = "idle"
               /\ lastAct' = "reject"
               /\ outcome' = "circuit_open"
               /\ invoked' = 0
               /\ UNCHANGED trials
    /\ UNCHANGED << now, streak, trialFailedAt, retryVars, managerVars, cacheVars, alertVars, restVars >>

\* CircuitBreaker.call from the return (or the raise) of func on.
CallReturn ==
    /\ pc = "running"
    /\ \E o \in Outcomes :
        /\ cb' = Settle(cb, o, now)
        /\ outcome' = o
        /\ streak' = CASE o = "ok" -> 0
                       [] o = "expected" -> streak + 1
                       [] OTHER -> streak
        /\ trialFailedAt' =
               CASE o = "expected" /\ cb.state = "half_open" -> now
                 [] o = "unexpected" -> trialFailedAt
                 [] OTHER -> None
    /\ pc' = "idle"
    /\ lastAct' = "return"
    /\ invoked' = 1
    /\ trials' = IF cb'.state = "half_open" THEN trials ELSE 0
    /\ UNCHANGED << now, ncalls, retryVars, managerVars, cacheVars, alertVars, restVars >>

\* CircuitBreaker.reset, between two calls.
Reset ==
    /\ pc = "idle"
    /\ cb' = reset(cb)
    /\ lastAct' = "reset"
    /\ streak' = 0
    /\ trials' = 0
    /\ trialFailedAt' = None
    /\ UNCHANGED << now, pc, outcome, invoked, ncalls, retryVars, managerVars, cacheVars, alertVars, restVars >>

\* Time passes (also while func runs).
Tick ==
    /\ now < MaxTime
    /\ now' = now + 1
    /\ lastAct' = "tick"
    /\ UNCHANGED << cb, pc, outcome, invoked, streak, trials, trialFailedAt, ncalls,
                    retryVars, managerVars, cacheVars, alertVars, restVars >>

NextBreaker == CallEnter \/ CallReturn \/ Reset \/ Tick

SpecBreaker == InitBreaker /\ [][NextBreaker]_vars


\* ------------------------------------------------------ claims: the breaker
CallStep == ncalls' = ncalls + 1
ReturnStep == pc = "running" /\ pc' = "idle"

\* C1: from Closed with failure_count = 0, the return of the k-th consecutive
\* expected failure leaves the breaker Closed while k < failure_threshold and
\* Open once k reaches failure_threshold; a call made on an Open breaker before
\* recovery_timeout has elapsed since the last failure raises without invoking
\* the operation and changes no field of the breaker.
C1_TripsAtThreshold ==
    [][ /\ (ReturnStep /\ outcome' = "expected")
            => cb'.state = IF streak' >= cb.failure_threshold THEN "open" ELSE "closed"
        /\ (CallStep /\ cb.state = "open"
                     /\ now - cb.last_failure_time < cb.recovery_timeout)
            => /\ lastAct' = "reject"
               /\ outcome' = "circuit_open"
               /\ invoked' = 0
               /\ pc' = "idle"
               /\ cb' = cb ]_vars

\* A call rejected right after the breaker tripped at exactly failure_threshold
\* failures, with a threshold above one.
C1_Witness ==
    /\ outcome = "circuit_open"
    /\ cb.state = "open"
    /\ cb.failure_threshold > 1
    /\ streak = cb.failure_threshold

\* C2: an Open breaker becomes HalfOpen only on a call made when
\* now - last_failure_time >= recovery_timeout, and while it stays HalfOpen
\* at most one invocation of the operation is admitted.
C2_SingleTrial ==
    [][ /\ (cb.state = "open" /\ cb'.state = "half_open")
            => (CallStep /\ now - cb.last_failure_time >= cb.recovery_timeout)
        /\ trials' <= 1 ]_vars

\* C3: a HalfOpen trial that returns closes the breaker, zeroes failure_count
\* and adds one to success_count; one that raises an expected exception reopens
\* it, and the calls that follow are rejected without invoking the operation
\* exactly until recovery_timeout has elapsed since that trial's failure.
C3_TrialOutcome ==
    [][ /\ (ReturnStep /\ cb.state = "half_open" /\ outcome' = "ok")
            => /\ cb'.state = "closed"
               /\ cb'.failure_count = 0
               /\ cb'.success_count = cb.success_count + 1
        /\ (ReturnStep /\ cb.state = "half_open" /\ outcome' = "expected")
            => cb'.state = "open"
        /\ (CallStep /\ cb.state = "open" /\ trialFailedAt # None)
            => IF now - trialFailedAt < cb.recovery_timeout
               THEN lastAct' = "reject" /\ invoked' = 0 /\ cb' = cb
               ELSE lastAct' = "enter" /\ cb'.state = "half_open" ]_vars

\* A call rejected after a HalfOpen trial failed and reopened the breaker.
C3_Witness ==
    /\ trialFailedAt # None
    /\ cb.state = "open"
    /\ outcome = "circuit_open"
    /\ now > trialFailedAt


\* ------------------------------------------------------------ RetryHandler
\* What one invocation of the operation does: it returns, or raises one of two
\* transient errors, or a permanent one.
Errors == { "TimeoutError", "ConnectionError", "PermanentError" }
OpOutcomes == { "ok" } \cup Errors

\* RetryHandler.exceptions: the errors the handler retries.
exceptions == { "TimeoutError", "ConnectionError" }

\* CircuitBreaker.expected_exception: the errors the breaker counts.
expected_exception == { "TimeoutError", "ConnectionError" }

\* The for loop of RetryHandler's wrapper from `attempt` on; s[i] is what the
\* i-th invocation of func does.  A return and an error outside `exceptions`
\* leave the loop at once; a retried error computes the delay, calls the
\* on_retry hook, sleeps and goes on; the last attempt's error is raised.
RECURSIVE RetryLoop(_, _, _)
RetryLoop(max, s, attempt) ==
    LET r == s[attempt] IN
    IF r \notin exceptions \/ attempt = max
    THEN [ result |-> r, invocations |-> attempt, sleeps |-> attempt - 1,
           strategy_calls |-> attempt - 1, on_retry_calls |-> attempt - 1 ]
    ELSE RetryLoop(max, s, attempt + 1)

\* A loop whose except clause catches every exception.
RECURSIVE RetryLoopAll(_, _, _)
RetryLoopAll(max, s, attempt) ==
    LET r == s[attempt] IN
    IF r \notin Errors \/ attempt = max
    THEN [ result |-> r, invocations |-> attempt, sleeps |-> attempt - 1,
           strategy_calls |-> attempt - 1, on_retry_calls |-> attempt - 1 ]
    ELSE RetryLoopAll(max, s, attempt + 1)

\* A wrapper that retries whatever the operation raises.
RetryHandler_wrapper_retries_all(max, s) == RetryLoopAll(max, s, 1)

\* A wrapper whose loop is range(1, max_attempts): one attempt short.
RetryHandler_wrapper_short(max, s) ==
    RetryLoop(IF max > 1 THEN max - 1 ELSE 1, s, 1)

\* RetryHandler.__call__'s wrapper, for max_attempts >= 1
RetryHandler_wrapper(max, s) == RetryLoop(max, s, 1)

Scripts(n) == [ 1..n -> OpOutcomes ]

\* A RetryHandler and an operation to wrap.
InitRetry ==
    /\ now = 0
    /\ cb = CircuitBreaker(1, 0)
    /\ pc = "idle"
    /\ lastAct = "init"
    /\ outcome = "none"
    /\ invoked = 0
    /\ streak = 0
    /\ trials = 0
    /\ trialFailedAt = None
    /\ ncalls = 0
    /\ max_attempts \in 1..MaxAttempts
    /\ script \in Scripts(max_attempts)
    /\ retried = << >>
    /\ ManagerIdle
    /\ CacheIdle
    /\ AlertIdle
    /\ RestIdle

\* One call of the wrapped function.
RetryCall ==
    /\ lastAct = "init"
    /\ retried' = RetryHandler_wrapper(max_attempts, script)
    /\ lastAct' = "retry"
    /\ UNCHANGED << now, cb, pc, outcome, invoked, streak, trials, trialFailedAt, ncalls,
                    max_attempts, script, managerVars, cacheVars, alertVars, restVars >>

NextRetry == RetryCall

SpecRetry == InitRetry /\ [][NextRetry]_vars

\* --------------------------------------------------------- FallbackHandler
\* A handler field that was not given (Python's None).
Unset == "None"

\* What a call can be given as arguments.
Args == { "x", "y" }

\* A fallback_func is Unset, or a function that returns a value made from its
\* arguments ("echo"), or one that raises ("raises").
FallbackFuncs == { Unset, "echo", "raises" }

\* A fallback_value is Unset, or a value; "" is a value that is falsy.
FallbackValues == { Unset, "", "cached" }

\* fallback_func(*args)
ApplyFallback(ff, args) ==
    IF ff = "raises" THEN "FallbackError"
    ELSE CASE args = "x" -> "fb(x)"
           [] args = "y" -> "fb(y)"
           [] OTHER      -> "fb(?)"

\* A wrapper that tests fallback_value for truth instead of for None.
FallbackHandler_wrapper_truthy(ff, fv, r, args) ==
    IF r \in Errors
    THEN IF ff # Unset
         THEN [ result |-> ApplyFallback(ff, args), fallback_calls |-> << args >> ]
         ELSE IF fv # Unset /\ fv # ""
         THEN [ result |-> fv, fallback_calls |-> << >> ]
         ELSE [ result |-> r, fallback_calls |-> << >> ]
    ELSE [ result |-> r, fallback_calls |-> << >> ]

\* FallbackHandler.__call__'s wrapper, called with args, around a function
\* that ends with r: its result (a value, or the error it raises) and the
\* calls it made of fallback_func.
FallbackHandler_wrapper(ff, fv, r, args) ==
    IF r \in Errors
    THEN IF ff # Unset
         THEN [ result |-> ApplyFallback(ff, args), fallback_calls |-> << args >> ]
         ELSE IF fv # Unset
         THEN [ result |-> fv, fallback_calls |-> << >> ]
         ELSE [ result |-> r, fallback_calls |-> << >> ]
    ELSE [ result |-> r, fallback_calls |-> << >> ]

fallbackFrame == << now, cb, pc, breakerObs, retryVars, managerVars, cacheVars, alertVars >>

\* A FallbackHandler, a function to wrap and the arguments of one call.
InitFallback ==
    /\ now = 0
    /\ cb = CircuitBreaker(1, 0)
    /\ pc = "idle"
    /\ lastAct = "init"
    /\ outcome = "none"
    /\ invoked = 0
    /\ streak = 0
    /\ trials = 0
    /\ trialFailedAt = None
    /\ ncalls = 0
    /\ RetryIdle
    /\ ManagerIdle
    /\ CacheIdle
    /\ AlertIdle
    /\ fallback_func \in FallbackFuncs
    /\ fallback_value \in FallbackValues
    /\ opDoes \in OpOutcomes
    /\ callArgs \in Args
    /\ wrapped = << >>
    /\ PipelineIdle
    /\ AnomalyIdle
    /\ SystemIdle

\* One call of the wrapped function.
FallbackCall ==
    /\ wrapped = << >>
    /\ wrapped' = FallbackHandler_wrapper(fallback_func, fallback_value, opDoes, callArgs)
    /\ UNCHANGED << fallback_func, fallback_value, opDoes, callArgs, pipelineVars,
                    anomalyVars, systemVars, fallbackFrame >>

NextFallback == FallbackCall

SpecFallback == InitFallback /\ [][NextFallback]_vars

\* ------------------------------------------------------- ResilienceManager
\* program constants: the defaults of RetryHandler and CircuitBreaker
DefaultMaxAttempts == 3
DefaultThreshold   == 5

\* The function resilient_call hands to the circuit breaker (or calls itself):
\* func wrapped by the fallback handler first and by the retry handler around
\* that.  s[i] is what the i-th invocation of the operation does.
ResilientFunc(c, s) ==
    LET seen == [ i \in DOMAIN s |->
                    IF c.fallback = "absent" THEN s[i]
                    ELSE FallbackHandler_wrapper(
                             IF c.fallback = "func" THEN "echo" ELSE Unset,
                             IF c.fallback = "value" THEN "fallback" ELSE Unset,
                             s[i], "x").result ]
    IN IF c.retry
       THEN RetryHandler_wrapper(max_attempts, seen)
       ELSE [ result |-> seen[1], invocations |-> 1, sleeps |-> 0,
              strategy_calls |-> 0, on_retry_calls |-> 0 ]

\* How CircuitBreaker.call sees the end of the function it wraps.
Classify(r) ==
    IF r \notin Errors THEN "ok"
    ELSE IF r \in expected_exception THEN "expected" ELSE "unexpected"

AllTransient(s, n) == \A i \in 1..n : s[i] \in exceptions \cap expected_exception

\* A manager with a circuit breaker (default threshold), a retry handler
\* (default max_attempts) and possibly a fallback handler registered.
InitManager ==
    /\ now = 0
    /\ \E to \in 1..MaxTimeout : cb = CircuitBreaker(DefaultThreshold, to)
    /\ pc = "idle"
    /\ lastAct = "init"
    /\ outcome = "none"
    /\ invoked = 0
    /\ streak = 0
    /\ trials = 0
    /\ trialFailedAt = None
    /\ ncalls = 0
    /\ max_attempts = DefaultMaxAttempts
    /\ script = << >>
    /\ retried = << >>
    /\ cfg \in [ breaker : BOOLEAN, retry : BOOLEAN, fallback : { "absent", "value", "func" } ]
    /\ alwaysRaised = TRUE
    /\ CacheIdle
    /\ AlertIdle
    /\ RestIdle

\* resilient_call with a circuit breaker, up to the invocation of the wrapped
\* function: CircuitBreaker.call's test of the state.
ResilientEnter ==
    /\ pc = "idle"
    /\ cfg.breaker
    /\ ncalls < MaxTopCalls
    /\ ncalls' = ncalls + 1
    /\ LET a == Admit(cb, now) IN
       /\ cb' = a.b
       /\ IF a.admitted
          THEN /\ pc' = "running"
               /\ lastAct' = "enter"
               /\ UNCHANGED << outcome, invoked >>
          ELSE /\ pc' = "idle"
               /\ lastAct' = "reject"
               /\ outcome' = "circuit_open"
               /\ invoked' = 0
    /\ UNCHANGED << now, streak, trials, trialFailedAt, retryVars, managerVars, cacheVars, alertVars, restVars >>

\* resilient_call with a circuit breaker, from the end of the wrapped function.
ResilientReturn ==
    /\ pc = "running"
    /\ \E s \in Scripts(max_attempts) :
        LET r == ResilientFunc(cfg, s) IN
        /\ cb' = Settle(cb, Classify(r.result), now)
        /\ outcome' = r.result
        /\ invoked' = r.invocations
        /\ script' = SubSeq(s, 1, r.invocations)
        /\ alwaysRaised' = (alwaysRaised /\ AllTransient(s, r.invocations))
    /\ pc' = "idle"
    /\ lastAct' = "return"
    /\ UNCHANGED << now, streak, trials, trialFailedAt, ncalls, max_attempts, retried, cfg, cacheVars, alertVars, restVars >>

\* resilient_call without a circuit breaker: the wrapped function is called.
ResilientPlain ==
    /\ pc = "idle"
    /\ ~cfg.breaker
    /\ ncalls < MaxTopCalls
    /\ ncalls' = ncalls + 1
    /\ \E s \in Scripts(max_attempts) :
        LET r == ResilientFunc(cfg, s) IN
        /\ outcome' = r.result
        /\ invoked' = r.invocations
        /\ script' = SubSeq(s, 1, r.invocations)
        /\ alwaysRaised' = (alwaysRaised /\ AllTransient(s, r.invocations))
    /\ lastAct' = "return"
    /\ UNCHANGED << now, cb, pc, streak, trials, trialFailedAt, max_attempts, retried, cfg, cacheVars, alertVars, restVars >>

NextManager == ResilientEnter \/ ResilientReturn \/ ResilientPlain \/ Tick

SpecManager == InitManager /\ [][NextManager]_vars


\* ------------------------------------------- claims: retry and the manager
Min(a, b) == IF a < b THEN a ELSE b

\* The operation raises a retried error at its first f invocations and then
\* returns (f = max_attempts: it raises at every invocation the wrapper makes).
FailsThenSucceeds(f) ==
    /\ \A i \in 1..f : script[i] \in exceptions
    /\ f < max_attempts => script[f + 1] = "ok"

\* C6: for an operation that raises a retried error at its first f invocations
\* and then returns, the wrapper invokes it min(f+1, max_attempts) times,
\* returns its value iff f < max_attempts and otherwise raises the error of the
\* last invocation.
C6_RetryCount ==
    retried # << >> =>
        \A f \in 0..max_attempts :
            FailsThenSucceeds(f) =>
                /\ retried.invocations = Min(f + 1, max_attempts)
                /\ (retried.result = "ok") <=> (f < max_attempts)
                /\ f = max_attempts => retried.result = script[max_attempts]

\* The wrapper has succeeded at its last attempt, after max_attempts - 1 failures.
C6_Witness ==
    /\ retried # << >>
    /\ max_attempts > 1
    /\ FailsThenSucceeds(max_attempts - 1)
    /\ retried.result = "ok"
    /\ retried.invocations = max_attempts

RetryAndBreaker == cfg.breaker /\ cfg.retry /\ cfg.fallback = "absent"

\* C4 as stated: with retry (max_attempts = 3) and breaker (threshold 5)
\* around an operation that always raises a retried, counted error, each of the
\* first 5 calls invokes it 3 times and adds 1 to failure_count, and the 6th
\* call raises the circuit-open error without invoking it.
C4_SixthRejected ==
    [][ (RetryAndBreaker /\ alwaysRaised')
        => /\ (ReturnStep /\ ncalls <= cb.failure_threshold)
               => /\ invoked' = max_attempts
                  /\ cb'.failure_count = cb.failure_count + 1
           /\ (CallStep /\ ncalls = cb.failure_threshold)
               => /\ lastAct' = "reject"
                  /\ outcome' = "circuit_open"
                  /\ invoked' = 0 ]_vars

\* C4 amended: the same, for a 6th call made before recovery_timeout has
\* elapsed since the failure of the 5th.
C4_SixthRejectedInTime ==
    [][ (RetryAndBreaker /\ alwaysRaised')
        => /\ (ReturnStep /\ ncalls <= cb.failure_threshold)
               => /\ invoked' = max_attempts
                  /\ cb'.failure_count = cb.failure_count + 1
           /\ (CallStep /\ ncalls = cb.failure_threshold
                        /\ now - cb.last_failure_time < cb.recovery_timeout)
               => /\ lastAct' = "reject"
                  /\ outcome' = "circuit_open"
                  /\ invoked' = 0 ]_vars

\* The 6th call has been rejected after five calls of three failures each.
C4_Witness ==
    /\ RetryAndBreaker
    /\ alwaysRaised
    /\ ncalls = DefaultThreshold + 1
    /\ cb.failure_count = DefaultThreshold
    /\ lastAct = "reject"
    /\ outcome = "circuit_open"

AllThree == cfg.breaker /\ cfg.retry /\ cfg.fallback = "value"

\* C5: with breaker, retry and fallback all named the fallback is outermost:
\* a call rejected by the Open breaker ends with the fallback result, and a
\* call that ends with the fallback result after invoking the operation has
\* had its failure retried (a retried error only after max_attempts
\* invocations) and counted by the breaker (a counted error adds 1 to
\* failure_count).
C5_FallbackOutermost ==
    [][ AllThree
        => /\ (CallStep /\ cb.state = "open" /\ ~_should_attempt_reset(cb, now))
               => outcome' = "fallback"
           /\ (ReturnStep /\ outcome' = "fallback")
               => LET last == script'[invoked'] IN
                  /\ last \in exceptions => invoked' = max_attempts
                  /\ last \in expected_exception
                        => cb'.failure_count = cb.failure_count + 1 ]_vars


\* ------------------------------------------------------------- MemoryCache
Keys   == { "k1", "k2", "k3" }
Values == { "a", "b" }
Miss   == << "miss" >>  \* get's default

\* The ttl argument of set: absent (None), or a number of clock units.
TTLArgs == { << >> } \cup { << t >> : t \in 0..MaxTTL }

KeysOf(c) == { c[i].key : i \in DOMAIN c }
Item(c, k) == c[CHOOSE i \in DOMAIN c : c[i].key = k]
Without(c, K) == SelectSeq(c, LAMBDA e : e.key \notin K)

\* CacheItem.__init__
CacheItem(k, v, ttl, t) == [ key |-> k, value |-> v, created_at |-> t, ttl |-> ttl ]

\* An item that counts as expired from the instant its ttl is used up.
is_expired_early(e, t) == t >= e.created_at + e.ttl

\* CacheItem.is_expired, at time t
is_expired(e, t) == t > e.created_at + e.ttl

\* OrderedDict.move_to_end
move_to_end(c, k) == Append(Without(c, {k}), Item(c, k))

\* The observer's order of last touch: k is touched now ...
Touch(k) == Append(SelectSeq(touchOrder, LAMBDA x : x # k), k)
\* ... and a key that is no longer stored is forgotten.
Stored(order, c) == SelectSeq(order, LAMBDA x : x \in KeysOf(c))

cacheFrame == << cb, pc, breakerObs, retryVars, managerVars, alertVars, restVars >>

\* A cache that makes room only once it is over its capacity.
set_late_eviction(k, v, t) ==
    LET ttl == IF t = << >> THEN default_ttl ELSE t[1]
        c1  == Without(cache, {k})
        c2  == IF Len(c1) > max_size THEN Tail(c1) ELSE c1
    IN /\ cache' = Append(c2, CacheItem(k, v, ttl, now))
       /\ ret' = << >>
       /\ touchOrder' = Stored(Touch(k), cache')
       /\ arg' = << k, v, t >>
       /\ did' = IF c2 # c1 THEN "evict" ELSE "set"
       /\ UNCHANGED << now, max_size, default_ttl, cacheFrame >>

\* MemoryCache.set
set(k, v, t) ==
    LET ttl == IF t = << >> THEN default_ttl ELSE t[1]
        c1  == Without(cache, {k})
        c2  == IF Len(c1) >= max_size THEN Tail(c1) ELSE c1
    IN /\ cache' = Append(c2, CacheItem(k, v, ttl, now))
       /\ ret' = << >>
       /\ touchOrder' = Stored(Touch(k), cache')
       /\ arg' = << k, v, t >>
       /\ did' = IF c2 # c1 THEN "evict" ELSE "set"
       /\ UNCHANGED << now, max_size, default_ttl, cacheFrame >>

\* A get that leaves the recency order alone.
get_no_refresh(k) ==
    /\ IF k \notin KeysOf(cache)
       THEN /\ ret' = Miss
            /\ did' = "miss"
            /\ UNCHANGED << cache, touchOrder >>
       ELSE IF is_expired(Item(cache, k), now)
       THEN /\ cache' = Without(cache, {k})
            /\ ret' = Miss
            /\ did' = "expired"
            /\ touchOrder' = Stored(touchOrder, cache')
       ELSE /\ UNCHANGED cache
            /\ ret' = << Item(cache, k).value >>
            /\ touchOrder' = Stored(Touch(k), cache')
            /\ did' = "hit"
    /\ arg' = << k >>
    /\ UNCHANGED << now, max_size, default_ttl, cacheFrame >>

\* MemoryCache.get
get(k) ==
    /\ IF k \notin KeysOf(cache)
       THEN /\ ret' = Miss
            /\ did' = "miss"
            /\ UNCHANGED << cache, touchOrder >>
       ELSE IF is_expired(Item(cache, k), now)
       THEN /\ cache' = Without(cache, {k})
            /\ ret' = Miss
            /\ did' = "expired"
            /\ touchOrder' = Stored(touchOrder, cache')
       ELSE /\ cache' = move_to_end(cache, k)
            /\ ret' = << Item(cache, k).value >>
            /\ touchOrder' = Stored(Touch(k), cache')
            /\ did' = "hit"
    /\ arg' = << k >>
    /\ UNCHANGED << now, max_size, default_ttl, cacheFrame >>

\* MemoryCache.delete
delete(k) ==
    /\ cache' = Without(cache, {k})
    /\ ret' = IF k \in KeysOf(cache) THEN << "True" >> ELSE << "False" >>
    /\ arg' = << >>
    /\ did' = "other"
    /\ touchOrder' = Stored(touchOrder, cache')
    /\ UNCHANGED << now, max_size, default_ttl, cacheFrame >>

\* MemoryCache.clear
clear ==
    /\ cache' = << >>
    /\ ret' = << >>
    /\ arg' = << >>
    /\ did' = "other"
    /\ touchOrder' = Stored(touchOrder, cache')
    /\ UNCHANGED << now, max_size, default_ttl, cacheFrame >>

Expired(c, t) == { k \in KeysOf(c) : is_expired(Item(c, k), t) }

\* The keys of the expired items, oldest first.
expired_keys(c, t) ==
    LET old == SelectSeq(c, LAMBDA e : is_expired(e, t))
    IN [ i \in DOMAIN old |-> old[i].key ]

\* MemoryCache.cleanup_expired, which returns len(expired_keys): ret is the list
cleanup_expired ==
    /\ cache' = Without(cache, Expired(cache, now))
    /\ ret' = expired_keys(cache, now)
    /\ arg' = << >>
    /\ did' = "other"
    /\ touchOrder' = Stored(touchOrder, cache')
    /\ UNCHANGED << now, max_size, default_ttl, cacheFrame >>

\* MemoryCache.get_stats: of what it returns, the size and max_size
get_stats ==
    /\ ret' = << Len(cache), max_size >>
    /\ arg' = << >>
    /\ did' = "stats"
    /\ UNCHANGED << cache, touchOrder, now, max_size, default_ttl, cacheFrame >>

\* MemoryCache.keys: cleanup_expired, then the keys left, oldest first
keys ==
    /\ cache' = Without(cache, Expired(cache, now))
    /\ ret' = [ i \in DOMAIN cache' |-> cache'[i].key ]
    /\ arg' = << >>
    /\ did' = "keys"
    /\ touchOrder' = Stored(touchOrder, cache')
    /\ UNCHANGED << now, max_size, default_ttl, cacheFrame >>

\* MemoryCache.exists
exists(k) ==
    /\ IF k \notin KeysOf(cache)
       THEN ret' = << "False" >> /\ UNCHANGED cache
       ELSE IF is_expired(Item(cache, k), now)
       THEN ret' = << "False" >> /\ cache' = Without(cache, {k})
       ELSE ret' = << "True" >> /\ UNCHANGED cache
    /\ arg' = << k >>
    /\ did' = "exists"
    /\ touchOrder' = Stored(touchOrder, cache')
    /\ UNCHANGED << now, max_size, default_ttl, cacheFrame >>

\* Time passes between two operations of the cache.
CacheTick ==
    /\ now < MaxCacheTime
    /\ now' = now + 1
    /\ UNCHANGED << cacheVars, cacheFrame >>

\* MemoryCache.__init__: an empty cache.
InitCache ==
    /\ now = 0
    /\ cb = CircuitBreaker(1, 0)
    /\ pc = "idle"
    /\ lastAct = "init"
    /\ outcome = "none"
    /\ invoked = 0
    /\ streak = 0
    /\ trials = 0
    /\ trialFailedAt = None
    /\ ncalls = 0
    /\ RetryIdle
    /\ ManagerIdle
    /\ max_size \in 1..MaxSize
    /\ default_ttl = MaxTTL
    /\ cache = << >>
    /\ ret = << >>
    /\ touchOrder = << >>
    /\ arg = << >>
    /\ did = "none"
    /\ AlertIdle
    /\ RestIdle

Set == \E k \in Keys, v \in Values, t \in TTLArgs : set(k, v, t)
Get == \E k \in Keys : get(k)
Delete == \E k \in Keys : delete(k)
Exists == \E k \in Keys : exists(k)

NextCache ==
    Set \/ Get \/ Delete \/ clear \/ cleanup_expired \/ get_stats \/ keys \/ Exists \/ CacheTick

SpecCache == InitCache /\ [][NextCache]_vars


\* ------------------------------------------------------- claims: the cache
\* A step that is a set, and one that is a get; arg' holds its arguments.
SetStep == now' = now /\ did' \in { "set", "evict" }
GetStep == now' = now /\ did' \in { "hit", "miss", "expired" }

\* C7: set(k, v, ttl) stores v for k, created now with that ttl; get(k) returns
\* the stored value while now <= created_at + ttl, and once now > created_at +
\* ttl it returns the default and removes the entry; no operation but a set of
\* k changes the entry stored for k.
C7_TTL ==
    [][ /\ SetStep =>
              LET k == arg'[1]  v == arg'[2]  t == arg'[3] IN
              /\ k \in KeysOf(cache')
              /\ Item(cache', k) =
                    [ key |-> k, value |-> v, created_at |-> now,
                      ttl |-> IF t = << >> THEN default_ttl ELSE t[1] ]
        /\ GetStep =>
              LET k == arg'[1] IN
              IF k \in KeysOf(cache)
              THEN LET e == Item(cache, k) IN
                   IF now > e.created_at + e.ttl
                   THEN ret' = Miss /\ k \notin KeysOf(cache')
                   ELSE ret' = << e.value >> /\ k \in KeysOf(cache')
              ELSE ret' = Miss
        /\ \A j \in KeysOf(cache') :
              (SetStep /\ j = arg'[1])
              \/ (j \in KeysOf(cache) /\ Item(cache', j) = Item(cache, j)) ]_vars

\* A get has found an entry whose ttl had run out, and removed it.
C7_Witness ==
    /\ did = "expired"
    /\ ret = Miss
    /\ now > 0

\* The stored key touched least recently.
LRUKey == touchOrder[1]

\* C8: a set of a key that is not stored, on a cache holding max_size entries,
\* removes exactly the entry touched least recently (by a set or a get hit) and
\* keeps every other entry; a set of a stored key replaces that entry and
\* removes no other.
C8_LRU ==
    [][ SetStep =>
            LET k == arg'[1]
                gone == IF k \notin KeysOf(cache) /\ Len(cache) = max_size
                        THEN { LRUKey } ELSE { }
            IN /\ KeysOf(cache') = (KeysOf(cache) \ gone) \cup { k }
               /\ Len(cache') = Cardinality(KeysOf(cache'))
               /\ \A j \in KeysOf(cache') \ { k } : Item(cache', j) = Item(cache, j) ]_vars

\* A set has evicted an entry while an entry stored earlier is kept: a get hit
\* had refreshed that one in between.
C8_Witness ==
    /\ did = "evict"
    /\ max_size = Len(cache)
    /\ Len(cache) > 1
    /\ \E i \in 1..(Len(cache) - 1) : cache[i].created_at = 0
    /\ cache[Len(cache)].created_at > 0

\* C9: the cache never holds more than max_size entries.
C9_SizeBound == Len(cache) <= max_size

\* A set on a full cache has evicted, and the cache is full again.
C9_Witness ==
    /\ did = "evict"
    /\ max_size > 1
    /\ Len(cache) = max_size

\* a step that is an exists; arg' holds the key
ExistsStep == now' = now /\ did' = "exists"

\* C25: an entry stored with a ttl of zero or less is expired from the instant
\* of the set on: every get and every exists of its key reports a miss, the
\* clock instant of the set included.
C25_NonPositiveTTL ==
    [][ (GetStep \/ ExistsStep) =>
          LET k == arg'[1] IN
          (k \in KeysOf(cache) /\ Item(cache, k).ttl <= 0)
             => /\ GetStep => (ret' = Miss /\ did' # "hit")
                /\ ExistsStep => ret' = << "False" >> ]_vars

\* a step that is one of the cache's accessors: get_stats or keys
AccessorStep == now' = now /\ did' \in { "stats", "keys" }

\* C26: the accessors are pure: a call of the cache statistics or of the cache
\* keys leaves the entries of the cache as they were.
C26_PureAccessors ==
    [][ AccessorStep => cache' = cache ]_vars

\* ------------------------------------------------------------ AlertManager

\* AlertRule: the fields check_alerts reads
AlertRule(name, metric, threshold, operator, severity, channels, cooldown, enabled) ==
    [ name |-> name, metric |-> metric, threshold |-> threshold, operator |-> operator,
      severity |-> severity, channels |-> channels, cooldown_minutes |-> cooldown,
      enabled |-> enabled ]

\* Alert, as _create_alert builds it: status "active", nobody acknowledged it,
\* no resolution time
Alert(id, rule, value, t) ==
    [ id |-> id, rule_name |-> rule.name, metric |-> rule.metric, value |-> value,
      threshold |-> rule.threshold, operator |-> rule.operator,
      severity |-> rule.severity, timestamp |-> t,
      status |-> "active", acknowledged_by |-> "", resolved_at |-> None ]

RuleNames == { alert_rules[i].name : i \in DOMAIN alert_rules }

\* The metric source fails to be read
ReadError == -2

\* What the metric source does for a rule: it has no value, it raises, or it
\* yields a value at the threshold or one above it.
MetricSource(rule) == { None, ReadError, rule.threshold, rule.threshold + 5 }

\* A _get_metric_value that lets the error of the source through.
_get_metric_value_unguarded(src) == src

\* AlertManager._get_metric_value: the except clause turns an error of the
\* source into None.
_get_metric_value(src) == IF src = ReadError THEN None ELSE src

Users == { "ops" }

\* A rule that is still in cooldown at the very end of its window.
_is_in_cooldown_inclusive(rule, t) ==
    IF rule_cooldowns[rule.name] = None
    THEN FALSE
    ELSE t <= rule_cooldowns[rule.name] + rule.cooldown_minutes

\* AlertManager._is_in_cooldown, at time t
_is_in_cooldown(rule, t) ==
    IF rule_cooldowns[rule.name] = None
    THEN FALSE
    ELSE t < rule_cooldowns[rule.name] + rule.cooldown_minutes

\* AlertManager._evaluate_threshold
_evaluate_threshold(value, threshold, operator) ==
    CASE operator = ">"  -> value > threshold
      [] operator = "<"  -> value < threshold
      [] operator = ">=" -> value >= threshold
      [] operator = "<=" -> value <= threshold
      [] operator = "==" -> value = threshold
      [] operator = "!=" -> value # threshold
      [] OTHER           -> FALSE

\* AlertManager.get_active_alerts: the objects bound in active_alerts
get_active_alerts == { e.obj : e \in active_alerts }

\* The id _create_alert gives an alert of the rule at time t: the name of the
\* rule and the reading of the clock.
AlertId(rule, t) == << rule.name, t >>

\* The key k of the dict active_alerts is bound to an object.
Bound(k) == \E e \in active_alerts : e.id = k

ObjectOf(k) == (CHOOSE e \in active_alerts : e.id = k).obj

\* AlertManager._create_alert: the new object is bound to its id in
\* active_alerts (a dict: an object bound to the same id is replaced) and
\* appended to alert_history.
_create_alert(rule, value) ==
    LET id == AlertId(rule, now)
        obj == Len(alerts) + 1
    IN /\ alerts' = Append(alerts, Alert(id, rule, value, now))
       /\ active_alerts' = { e \in active_alerts : e.id # id } \cup { [ id |-> id, obj |-> obj ] }
       /\ alert_history' = Append(alert_history, obj)

\* The loop of check_alerts goes on to the next rule, or the pass returns.
Advance == passPos' = IF passPos = Len(alert_rules) THEN 0 ELSE passPos + 1

alertFrame == << cb, pc, breakerObs, retryVars, managerVars, cacheVars, restVars >>

\* check_alerts is called: the loop starts at the first rule.
CheckAlertsEnter ==
    /\ passPos = 0
    /\ passPos' = 1
    /\ branch' = "enter"
    /\ UNCHANGED << now, alert_rules, rule_cooldowns, alerts, alert_history, active_alerts,
                    passPhase, sent, alertRet, current_value, alertFrame >>

\* The body of the loop of check_alerts for the rule at hand, up to and
\* including _create_alert.  src is what the metric source does when the body
\* gets as far as reading it; a rule that is disabled or in cooldown reads
\* nothing.
EvalRule ==
    /\ passPos \in DOMAIN alert_rules
    /\ passPhase = "eval"
    /\ Len(alerts) < MaxAlerts
    /\ LET rule == alert_rules[passPos]
       IN IF ~rule.enabled
          THEN /\ branch' = "disabled"
               /\ current_value' = None
               /\ Advance
               /\ UNCHANGED << alerts, alert_history, active_alerts, passPhase >>
          ELSE IF _is_in_cooldown(rule, now)
          THEN /\ branch' = "cooldown"
               /\ current_value' = None
               /\ Advance
               /\ UNCHANGED << alerts, alert_history, active_alerts, passPhase >>
          ELSE \E src \in MetricSource(rule) :
               LET v == _get_metric_value(src)
               IN /\ current_value' = v
                  /\ IF v = ReadError
                     THEN \* the error leaves check_alerts, which has no handler
                          /\ branch' = "raised"
                          /\ passPos' = 0
                          /\ UNCHANGED << alerts, alert_history, active_alerts, passPhase >>
                     ELSE IF v = None
                     THEN /\ branch' = "no_value"
                          /\ Advance
                          /\ UNCHANGED << alerts, alert_history, active_alerts, passPhase >>
                     ELSE IF ~_evaluate_threshold(v, rule.threshold, rule.operator)
                     THEN /\ branch' = "below"
                          /\ Advance
                          /\ UNCHANGED << alerts, alert_history, active_alerts, passPhase >>
                     ELSE /\ branch' = "fired"
                          /\ _create_alert(rule, v)
                          /\ passPhase' = "notify"
                          /\ UNCHANGED passPos
    /\ UNCHANGED << now, alert_rules, rule_cooldowns, sent, alertRet, alertFrame >>

\* The channels whose delivery can raise: the dashboard needs no delivery.
Deliveries(channels) == { channels[i] : i \in DOMAIN channels } \ { "dashboard" }

\* The channels up to and including the first one of `fails`.
RECURSIVE UpToFirst(_, _)
UpToFirst(channels, fails) ==
    IF channels = << >> THEN << >>
    ELSE IF Head(channels) \in fails THEN << Head(channels) >>
    ELSE << Head(channels) >> \o UpToFirst(Tail(channels), fails)

\* A _send_notifications without the try: the first delivery that raises ends
\* the loop, and the exception leaves the method.
_send_notifications_unguarded(channels, fails) ==
    [ attempted |-> UpToFirst(channels, fails), failed |-> fails, raised |-> fails # { } ]

\* AlertManager._send_notifications over `channels`, when the deliveries on
\* the channels of `fails` raise: the except clause in the loop logs the error
\* and the loop goes on to the next channel.
_send_notifications(channels, fails) ==
    [ attempted |-> channels, failed |-> fails, raised |-> FALSE ]

\* The rest of the body for a rule that fired: _send_notifications, and when
\* it has returned the cooldown of the rule is stamped with the clock as it is
\* by then.  An exception out of _send_notifications would end the pass,
\* since check_alerts has no handler.
Notify ==
    /\ passPos \in DOMAIN alert_rules
    /\ passPhase = "notify"
    /\ \E fails \in SUBSET Deliveries(alert_rules[passPos].channels) :
         LET n == _send_notifications(alert_rules[passPos].channels, fails)
         IN /\ sent' = [ attempted |-> n.attempted, failed |-> n.failed ]
            /\ IF n.raised
               THEN /\ branch' = "raised"
                    /\ passPos' = 0
                    /\ UNCHANGED rule_cooldowns
               ELSE /\ branch' = "stamped"
                    /\ rule_cooldowns' =
                         [ rule_cooldowns EXCEPT ![alert_rules[passPos].name] = now ]
                    /\ Advance
    /\ passPhase' = "eval"
    /\ UNCHANGED << now, alert_rules, alerts, alert_history, active_alerts,
                    alertRet, current_value, alertFrame >>

\* AlertManager.acknowledge_alert
acknowledge_alert(alert_id, user) ==
    /\ IF Bound(alert_id)
       THEN /\ alerts' = [ alerts EXCEPT ![ObjectOf(alert_id)].status = "acknowledged",
                                         ![ObjectOf(alert_id)].acknowledged_by = user ]
            /\ alertRet' = TRUE
       ELSE /\ alertRet' = FALSE
            /\ UNCHANGED alerts
    /\ UNCHANGED << now, alert_rules, rule_cooldowns, alert_history, active_alerts,
                    passPos, passPhase, sent, current_value, branch, alertFrame >>

\* A resolve_alert that leaves the alert bound in active_alerts.
resolve_alert_no_pop(alert_id) ==
    /\ IF Bound(alert_id)
       THEN /\ alerts' = [ alerts EXCEPT ![ObjectOf(alert_id)].status = "resolved",
                                         ![ObjectOf(alert_id)].resolved_at = now ]
            /\ alertRet' = TRUE
       ELSE /\ alertRet' = FALSE
            /\ UNCHANGED alerts
    /\ UNCHANGED << now, alert_rules, rule_cooldowns, alert_history, active_alerts,
                    passPos, passPhase, sent, current_value, branch, alertFrame >>

\* AlertManager.resolve_alert
resolve_alert(alert_id) ==
    /\ IF Bound(alert_id)
       THEN /\ alerts' = [ alerts EXCEPT ![ObjectOf(alert_id)].status = "resolved",
                                         ![ObjectOf(alert_id)].resolved_at = now ]
            /\ active_alerts' = { e \in active_alerts : e.id # alert_id }
            /\ alertRet' = TRUE
       ELSE /\ alertRet' = FALSE
            /\ UNCHANGED << alerts, active_alerts >>
    /\ UNCHANGED << now, alert_rules, rule_cooldowns, alert_history,
                    passPos, passPhase, sent, current_value, branch, alertFrame >>

AlertIds == { alerts[i].id : i \in DOMAIN alerts }

AcknowledgeAlert == \E k \in AlertIds, u \in Users : acknowledge_alert(k, u)

ResolveAlert == \E k \in AlertIds : resolve_alert(k)

\* AlertManager.__init__, with two of the rules of _load_alert_rules: no
\* alert, no cooldown.
InitAlerts ==
    /\ now = 0
    /\ cb = CircuitBreaker(1, 0)
    /\ pc = "idle"
    /\ lastAct = "init"
    /\ outcome = "none"
    /\ invoked = 0
    /\ streak = 0
    /\ trials = 0
    /\ trialFailedAt = None
    /\ ncalls = 0
    /\ RetryIdle
    /\ ManagerIdle
    /\ CacheIdle
    /\ \E c \in 1..MaxCooldown, e \in BOOLEAN :
         alert_rules = << AlertRule("High CPU Usage", "system.cpu_percent", 80, ">", "warning",
                                    << "dashboard", "email" >>, c, TRUE),
                          AlertRule("Data Pipeline Error", "pipeline.error_rate", 5, ">", "error",
                                    << "dashboard", "email", "slack" >>, MaxCooldown, e) >>
    /\ rule_cooldowns = [ n \in { "High CPU Usage", "Data Pipeline Error" } |-> None ]
    /\ alerts = << >>
    /\ alert_history = << >>
    /\ active_alerts = { }
    /\ passPos = 0
    /\ passPhase = "eval"
    /\ sent = [ attempted |-> << >>, failed |-> { } ]
    /\ alertRet = FALSE
    /\ current_value = None
    /\ branch = "none"
    /\ RestIdle

\* AlertManager.cleanup_old_alerts: alert_history is rebuilt from the alerts
\* younger than the cutoff; days is the retention, in units of the clock.
cleanup_old_alerts(days) ==
    /\ alert_history' = SelectSeq(alert_history,
                                  LAMBDA obj : alerts[obj].timestamp > now - days)
    /\ UNCHANGED << now, alert_rules, rule_cooldowns, alerts, active_alerts,
                    passPos, passPhase, sent, alertRet, current_value, branch, alertFrame >>

CleanupOldAlerts == \E days \in 0..MaxAlertTime : cleanup_old_alerts(days)

\* AlertManager.get_alert_stats: the three counts
get_alert_stats ==
    [ total_alerts    |-> Len(alert_history),
      active_alerts   |-> Cardinality(active_alerts),
      resolved_alerts |-> Len(alert_history) - Cardinality(active_alerts) ]

\* The clock of the alert manager advances, in units of one minute.
AlertTick ==
    /\ now < MaxAlertTime
    /\ now' = now + 1
    /\ UNCHANGED << alertVars, alertFrame >>

NextAlerts ==
    CheckAlertsEnter \/ EvalRule \/ Notify \/ AcknowledgeAlert \/ ResolveAlert \/ AlertTick

SpecAlerts == InitAlerts /\ [][NextAlerts]_vars

\* The alert manager with its maintenance call as well.
NextAlertBooks == NextAlerts \/ CleanupOldAlerts

SpecAlertBooks == InitAlerts /\ [][NextAlertBooks]_vars

\* C39: every alert of the active set is in the history, every alert of the
\* history that is not resolved is in the active set, and get_alert_stats
\* reports as resolved_alerts the number of resolved alerts of the history,
\* which is not negative.
C39_AlertBookkeeping ==
    LET inHistory == { alert_history[i] : i \in DOMAIN alert_history }
        resolved  == { i \in DOMAIN alert_history :
                          alerts[alert_history[i]].status = "resolved" }
    IN /\ \A e \in active_alerts : e.obj \in inHistory
       /\ \A obj \in inHistory :
             alerts[obj].status # "resolved" => \E e \in active_alerts : e.obj = obj
       /\ get_alert_stats.resolved_alerts = Cardinality(resolved)
       /\ get_alert_stats.resolved_alerts >= 0

\* ------------------------------------------------------- claims on alerts

\* A step of check_alerts that evaluates the rule at hand.
EvalStep ==
    /\ passPos \in DOMAIN alert_rules
    /\ passPhase = "eval"
    /\ (passPos' # passPos \/ passPhase' # passPhase)

\* The metric value handed to the rule satisfies its condition.
Satisfied(rule, v) == v # None /\ _evaluate_threshold(v, rule.threshold, rule.operator)

\* C10: a rule that fired at t0 creates no alert in any pass before
\* t0 + cooldown, whatever the metric and whatever happened to its alerts, and
\* is evaluated again from t0 + cooldown on and creates one in the first such
\* pass that finds its condition satisfied; only the firing of a rule stamps its cooldown, and two
\* alerts of one rule are at least one cooldown apart.
C10_Cooldown ==
    [][ /\ EvalStep =>
             LET rule == alert_rules[passPos]
                 t0 == rule_cooldowns[rule.name]
             IN /\ (t0 # None /\ now < t0 + rule.cooldown_minutes)
                     => UNCHANGED << alerts, alert_history, active_alerts >>
                /\ (t0 # None /\ now >= t0 + rule.cooldown_minutes /\ rule.enabled)
                     => branch' # "cooldown"
                /\ (t0 # None /\ now >= t0 + rule.cooldown_minutes
                      /\ rule.enabled /\ Satisfied(rule, current_value'))
                     => /\ Len(alerts') = Len(alerts) + 1
                        /\ alerts'[Len(alerts')].rule_name = rule.name
                        /\ alerts'[Len(alerts')].timestamp = now
                        /\ alert_history' = Append(alert_history, Len(alerts'))
        /\ \A n \in RuleNames :
             rule_cooldowns'[n] # rule_cooldowns[n]
               => /\ passPhase = "notify"
                  /\ alert_rules[passPos].name = n
                  /\ rule_cooldowns'[n] = now
        /\ \A i, j \in DOMAIN alerts', r \in DOMAIN alert_rules :
             (i < j /\ alerts'[i].rule_name = alert_rules[r].name
                    /\ alerts'[j].rule_name = alert_rules[r].name)
               => alerts'[j].timestamp - alerts'[i].timestamp
                    >= alert_rules[r].cooldown_minutes ]_vars

\* A rule has fired a second time, exactly one cooldown after its stamp, and
\* its first alert had been resolved before that.
C10_Witness ==
    /\ passPhase = "notify"
    /\ branch = "fired"
    /\ LET rule == alert_rules[passPos]
       IN /\ rule_cooldowns[rule.name] # None
          /\ now = rule_cooldowns[rule.name] + rule.cooldown_minutes
          /\ \E i \in DOMAIN alerts :
               /\ i < Len(alerts)
               /\ alerts[i].rule_name = rule.name
               /\ alerts[i].status = "resolved"
               /\ alerts[i].resolved_at < now

\* A step of check_alerts in which the rule at hand fires.
FireStep == EvalStep /\ passPhase' = "notify"

\* A step of acknowledge_alert or resolve_alert.
ApiStep == now' = now /\ UNCHANGED << passPos, passPhase, branch >>

\* C11: an alert that fires is bound once in the active set, with status
\* active and the severity of its rule, and appended to the history;
\* acknowledge_alert of an active alert sets status and actor and keeps it
\* active; resolve_alert sets status and resolved_at, removes it from the
\* active set and leaves the history alone; a call that returns False changes
\* nothing, and a resolved alert is never changed or active again.
C11_Lifecycle ==
    [][ /\ FireStep =>
             LET new == Len(alerts')
             IN /\ Len(alerts') = Len(alerts) + 1
                /\ Cardinality({ e \in active_alerts' : e.obj = new }) = 1
                /\ new \in get_active_alerts'
                /\ alerts'[new].status = "active"
                /\ alerts'[new].severity = alert_rules[passPos].severity
                /\ alert_history' = Append(alert_history, new)
        /\ ApiStep =>
             /\ UNCHANGED << alert_history, rule_cooldowns >>
             /\ Len(alerts') = Len(alerts)
             /\ alertRet' = FALSE => UNCHANGED << alerts, active_alerts >>
             /\ active_alerts' \subseteq active_alerts
             /\ \A e \in active_alerts \ active_alerts' : alerts'[e.obj].status = "resolved"
             /\ \A i \in DOMAIN alerts :
                  alerts'[i] # alerts[i] =>
                    /\ alertRet' = TRUE
                    /\ [ id |-> alerts[i].id, obj |-> i ] \in active_alerts
                    /\ \A j \in DOMAIN alerts \ { i } : alerts'[j] = alerts[j]
                    /\ \/ /\ \E u \in Users :
                               alerts'[i] = [ alerts[i] EXCEPT !.status = "acknowledged",
                                                               !.acknowledged_by = u ]
                          /\ active_alerts' = active_alerts
                       \/ /\ alerts'[i] = [ alerts[i] EXCEPT !.status = "resolved",
                                                             !.resolved_at = now ]
                          /\ active_alerts' = active_alerts \ { [ id |-> alerts[i].id, obj |-> i ] }
                          /\ \E h \in DOMAIN alert_history : alert_history[h] = i
        /\ \A i \in DOMAIN alerts :
             alerts[i].status = "resolved" =>
               /\ alerts'[i] = alerts[i]
               /\ i \notin get_active_alerts' ]_vars

\* An alert was acknowledged, then resolved, and a later acknowledge_alert or
\* resolve_alert of its id has returned False: it is in the history and not
\* in the active set.
C11_Witness ==
    /\ alertRet = FALSE
    /\ \E i \in DOMAIN alerts :
         /\ alerts[i].status = "resolved"
         /\ alerts[i].acknowledged_by = "ops"
         /\ i \notin get_active_alerts
         /\ \E h \in DOMAIN alert_history : alert_history[h] = i
         /\ \A e \in active_alerts : e.id # alerts[i].id

\* ------------------------------------------- claims: unexpected exceptions

\* C12: a call whose operation raises an exception outside expected_exception
\* hands that exception to the caller and leaves failure_count, success_count
\* and last_failure_time as they were before the call; neither its entry nor
\* its exit moves the breaker to Open.
C12_UnexpectedFrame ==
    [][ /\ CallStep =>
             /\ cb'.failure_count = cb.failure_count
             /\ cb'.success_count = cb.success_count
             /\ cb'.last_failure_time = cb.last_failure_time
             /\ cb'.state = "open" => (cb' = cb /\ lastAct' = "reject")
        /\ (pc = "running" /\ pc' = "running") => cb' = cb
        /\ (ReturnStep /\ outcome' = "unexpected") =>
             /\ cb' = cb
             /\ cb'.state # "open"
             /\ invoked' = 1 ]_vars

\* An unexpected exception has come back from a Closed breaker that was one
\* failure short of its threshold, and the breaker is still there.
C12_Witness ==
    /\ lastAct = "return"
    /\ outcome = "unexpected"
    /\ cb.state = "closed"
    /\ cb.failure_threshold > 1
    /\ cb.failure_count = cb.failure_threshold - 1

\* ------------------------------------------------- claims: retry, fallback

\* C13: the wrapper ends with the invocation that first raises an error
\* outside `exceptions` (no delay computed, no hook called and no sleep for
\* it), or returns, or is the max_attempts-th; what reaches the caller is what
\* that last invocation did, so an error is never turned into a return.
C13_RetryPropagates ==
    retried # << >> =>
        LET n == retried.invocations
        IN /\ n \in 1..max_attempts
           /\ \A i \in 1..(n - 1) : script[i] \in exceptions
           /\ script[n] \in exceptions => n = max_attempts
           /\ retried.result = script[n]
           /\ retried.sleeps = n - 1
           /\ retried.strategy_calls = n - 1
           /\ retried.on_retry_calls = n - 1
           /\ script[1] \in Errors \ exceptions =>
                /\ n = 1
                /\ retried.result = script[1]
                /\ retried.sleeps = 0
                /\ retried.strategy_calls = 0
                /\ retried.on_retry_calls = 0

\* The attempts are exhausted by two different retried errors and the caller
\* gets the last one.
C13_Witness ==
    /\ retried # << >>
    /\ max_attempts > 1
    /\ retried.invocations = max_attempts
    /\ script[max_attempts] \in exceptions
    /\ script[1] \in exceptions
    /\ script[1] # script[max_attempts]
    /\ retried.result = script[max_attempts]

\* C14: when the operation raises, the wrapper returns fallback_func applied
\* to the arguments of the call if there is a fallback_func, else the
\* fallback_value if there is one, else raises the operation's error; when the
\* operation returns, the wrapper returns its result and fallback_func is not
\* called.
C14_Fallback ==
    wrapped # << >> =>
        IF opDoes \in Errors
        THEN IF fallback_func # Unset
             THEN /\ wrapped.result = ApplyFallback(fallback_func, callArgs)
                  /\ wrapped.fallback_calls = << callArgs >>
             ELSE /\ wrapped.fallback_calls = << >>
                  /\ wrapped.result = IF fallback_value # Unset
                                      THEN fallback_value ELSE opDoes
        ELSE /\ wrapped.result = opDoes
             /\ wrapped.fallback_calls = << >>

\* The operation has raised and the wrapper has returned a static value that
\* is falsy.
C14_Witness ==
    /\ wrapped # << >>
    /\ opDoes \in Errors
    /\ fallback_func = Unset
    /\ fallback_value = ""
    /\ wrapped.result = ""

\* ------------------------------------------ claims: the integrated wiring

\* Breaker, retry handler and a fallback function, as _setup_resilience
\* registers them and run_data_collection_pipeline names them.
Wired == cfg.breaker /\ cfg.retry /\ cfg.fallback = "func"

\* C15: with breaker, retry and fallback function wired and an operation that
\* has failed at every invocation, each call returns the fallback data and,
\* from the failure_threshold-th call on, leaves the breaker Open.
C15_SustainedFailureOpens ==
    [][ (Wired /\ ReturnStep /\ alwaysRaised')
        => /\ outcome' = ApplyFallback("echo", "x")
           /\ ncalls >= cb.failure_threshold => cb'.state = "open" ]_vars

\* -------------------------------------------------------- IntegratedSystem

\* program constant: the ttl of "last_collected_data", one hour
LastDataTTL == 1

\* The items a collection can bring; "bad" does not pass the validator.
Items == { "w1", "w2", "bad" }

\* What run_collection returns when it returns: the items of a collection.
Collections == { { "w1" }, { "w1", "bad" }, { "w2" } }

\* _validate_collected_data: the items the validator finds valid are kept.
\* An item that was kept once is kept again.
_validate_collected_data(d) == d \ { "bad" }

\* cache_fallback: cache.get("last_collected_data", []) at time t.  The
\* default [] is a list; an entry holds the dict that was stored.
cache_fallback(t) ==
    IF last_collected_data = << >> \/ is_expired(last_collected_data, t)
    THEN [ found |-> FALSE, value |-> { } ]
    ELSE [ found |-> TRUE, value |-> last_collected_data.value ]

\* IntegratedSystem.run_data_collection_pipeline: the collection through
\* resilient_call (breaker, retry and fallback named), the validation, the
\* write to the cache and the result.  s[i] is what the i-th invocation of
\* run_collection does, d what it returns when it returns.
run_data_collection_pipeline ==
    /\ pc = "idle"
    /\ ncalls < MaxRuns
    /\ ncalls' = ncalls + 1
    /\ lastAct' = "pipeline"
    /\ LET a == Admit(cb, now) IN
       IF ~a.admitted
       THEN /\ cb' = a.b
            /\ outcome' = "circuit_open"
            /\ invoked' = 0
            /\ script' = << >>
            /\ usedFallback' = FALSE
            /\ pipelineResult' = [ success |-> FALSE, error |-> "circuit is OPEN" ]
            /\ UNCHANGED last_collected_data
       ELSE \E s \in Scripts(max_attempts), d \in Collections :
            LET r == ResilientFunc(cfg, s)
                fb == cache_fallback(now)
                failed == r.result = ApplyFallback("echo", "x")
            IN /\ cb' = Settle(a.b, Classify(r.result), now)
               /\ outcome' = r.result
               /\ invoked' = r.invocations
               /\ script' = SubSeq(s, 1, r.invocations)
               /\ usedFallback' = (failed /\ fb.found)
               /\ IF r.result = "ok" \/ (failed /\ fb.found)
                  THEN LET collection_result == IF failed THEN fb.value ELSE d
                           validated_data == _validate_collected_data(collection_result)
                       IN /\ last_collected_data' =
                               CacheItem("last_collected_data", validated_data,
                                         LastDataTTL, now)
                          /\ pipelineResult' = [ success |-> TRUE, data |-> validated_data ]
                  ELSE IF failed
                  THEN \* the default [] has no items(): AttributeError; the get
                       \* has removed an expired entry
                       /\ last_collected_data' = << >>
                       /\ pipelineResult' = [ success |-> FALSE, error |-> "AttributeError" ]
                  ELSE /\ UNCHANGED last_collected_data
                       /\ pipelineResult' = [ success |-> FALSE, error |-> r.result ]
    /\ UNCHANGED << now, pc, streak, trials, trialFailedAt, max_attempts, retried,
                    managerVars, cacheVars, alertVars, fallbackVars, anomalyVars,
                    systemVars >>

\* Time passes between two runs of the pipeline, in hours.
PipeTick ==
    /\ now < MaxPipeTime
    /\ now' = now + 1
    /\ UNCHANGED << cb, pc, breakerObs, retryVars, managerVars, cacheVars, alertVars,
                    restVars >>

\* IntegratedSystem.__init__ with an empty cache directory.
InitPipeline ==
    /\ now = 0
    /\ cb = CircuitBreaker(DefaultThreshold, 1)
    /\ pc = "idle"
    /\ lastAct = "init"
    /\ outcome = "none"
    /\ invoked = 0
    /\ streak = 0
    /\ trials = 0
    /\ trialFailedAt = None
    /\ ncalls = 0
    /\ max_attempts = DefaultMaxAttempts
    /\ script = << >>
    /\ retried = << >>
    /\ cfg = [ breaker |-> TRUE, retry |-> TRUE, fallback |-> "func" ]
    /\ alwaysRaised = TRUE
    /\ CacheIdle
    /\ AlertIdle
    /\ FallbackIdle
    /\ last_collected_data = << >>
    /\ pipelineResult = << >>
    /\ usedFallback = FALSE
    /\ AnomalyIdle
    /\ SystemIdle

NextPipeline == run_data_collection_pipeline \/ PipeTick

SpecPipeline == InitPipeline /\ [][NextPipeline]_vars

\* a run of the pipeline
PipelineRun == ncalls' = ncalls + 1

\* C40: a run whose collection failed and that got last_collected_data from
\* the fallback does not write the entry again: its age is still that of the
\* last successful collection.
C40_FallbackNotRenewed ==
    [][ (PipelineRun /\ usedFallback')
          => /\ last_collected_data' # << >>
             /\ last_collected_data'.created_at = last_collected_data.created_at ]_vars

\* A run of the pipeline.
PipelineStep == ncalls' = ncalls + 1

\* C16: a run whose collection failed and that was handed the cached data is
\* not reported as a success.
C16_DegradedReported ==
    [][ (PipelineStep /\ usedFallback') => ~pipelineResult'.success ]_vars

\* A step of check_alerts that sends the notifications of the rule at hand.
NotifyStep == passPos \in DOMAIN alert_rules /\ passPhase = "notify" /\ passPhase' = "eval"

\* C17: whatever deliveries raise, every channel of the rule is tried, the
\* alert stays where it is recorded (the active set is left alone, the history
\* holds the alert), the cooldown of the rule is stamped, and the pass goes on
\* to the next rule (or returns after the last one) without raising.
C17_ChannelIsolation ==
    [][ NotifyStep =>
          LET rule == alert_rules[passPos]
              new == Len(alerts)
          IN /\ sent'.attempted = rule.channels
             /\ branch' # "raised"
             /\ rule_cooldowns'[rule.name] = now
             /\ passPos' = IF passPos < Len(alert_rules) THEN passPos + 1 ELSE 0
             /\ alerts[new].rule_name = rule.name
             /\ UNCHANGED << alerts, active_alerts, alert_history >>
             /\ \E h \in DOMAIN alert_history' : alert_history'[h] = new ]_vars

\* The first of two deliveries has raised for the second rule's alert, the
\* second one was tried all the same, and the cooldown is stamped.
C17_Witness ==
    /\ branch = "stamped"
    /\ sent.failed = { "email" }
    /\ sent.attempted = << "dashboard", "email", "slack" >>
    /\ rule_cooldowns["Data Pipeline Error"] = now
    /\ \E i \in get_active_alerts : alerts[i].rule_name = "Data Pipeline Error"

\* C18: a rule that is disabled, or gets no metric value (the source has none
\* or raises), or whose condition is false creates no alert, raises nothing,
\* leaves every cooldown entry as it is and lets the pass go on to the next
\* rule.
C18_NoFireNoEffect ==
    [][ EvalStep =>
          LET rule == alert_rules[passPos]
          IN (\/ ~rule.enabled
              \/ current_value' = None
              \/ ~Satisfied(rule, current_value'))
             => /\ UNCHANGED << alerts, alert_history, active_alerts, rule_cooldowns >>
                /\ branch' \in { "disabled", "cooldown", "no_value", "below" }
                /\ passPhase' = "eval"
                /\ passPos' = IF passPos < Len(alert_rules) THEN passPos + 1 ELSE 0 ]_vars

\* The first rule, out of a cooldown that had been stamped earlier, got no
\* metric value; its stamp is as it was and the pass is at the second rule.
C18_Witness ==
    /\ branch = "no_value"
    /\ passPos = 2
    /\ rule_cooldowns[alert_rules[1].name] # None
    /\ now >= rule_cooldowns[alert_rules[1].name] + alert_rules[1].cooldown_minutes
    /\ Len(alerts) = 1

\* ---------------------------------------------------------- AnomalyDetector

\* program constant: the z-score threshold 2.5, as the fraction ZNum / ZDen
ZNum == 5
ZDen == 2

\* The values a series is made of.
Samples == { 50, 60, 500 }

Repeat(x, k) == [ i \in 1..k |-> x ]

\* s[lo] + ... + s[hi], by halves
RECURSIVE SumRange(_, _, _)
SumRange(s, lo, hi) ==
    IF lo > hi THEN 0
    ELSE IF lo = hi THEN s[lo]
    ELSE LET mid == (lo + hi) \div 2
         IN SumRange(s, lo, mid) + SumRange(s, mid + 1, hi)

Sum(s) == SumRange(s, 1, Len(s))

Abs(x) == IF x < 0 THEN -x ELSE x

RECURSIVE GCD(_, _)
GCD(a, b) == IF b = 0 THEN a ELSE GCD(b, a % b)

\* the common divisor of s[lo], ..., s[hi], by halves
RECURSIVE GCDRange(_, _, _)
GCDRange(s, lo, hi) ==
    IF lo > hi THEN 0
    ELSE IF lo = hi THEN Abs(s[lo])
    ELSE LET mid == (lo + hi) \div 2
         IN GCD(GCDRange(s, lo, mid), GCDRange(s, mid + 1, hi))

GCDAll(s) == GCDRange(s, 1, Len(s))

\* data - mean, every entry multiplied by the same positive factor (len(data)
\* over the common divisor of the entries), which leaves the z-scores as they
\* are: the model computes with integers.
Deviations(data) ==
    LET n == Len(data)
        total == Sum(data)
        raw == [ i \in 1..n |-> n * data[i] - total ]
        g == GCDAll(raw)
    IN IF g = 0 THEN raw ELSE [ i \in 1..n |-> raw[i] \div g ]

\* A z-score detection with the sample standard deviation (n - 1 for n).
_z_score_detection_sample(data) ==
    LET n == Len(data)
        dev == Deviations(data)
        ss == Sum([ i \in 1..n |-> dev[i] * dev[i] ])
    IN IF n < 2 THEN [ flagged |-> { }, divided |-> FALSE ]
       ELSE IF ss = 0 THEN [ flagged |-> { }, divided |-> FALSE ]
       ELSE [ flagged |-> { i \in 1..n :
                              dev[i] * dev[i]
                                > (ZNum * ZNum * ss) \div (ZDen * ZDen * (n - 1)) },
              divided |-> TRUE ]

\* AnomalyDetector._z_score_detection: the indices of the points it reports,
\* and whether it divided by std.  With mean and std of the population,
\* |x - mean| / std > 2.5 is n * dev^2 * ZDen^2 > ZNum^2 * sum(dev^2).
_z_score_detection(data) ==
    LET n == Len(data)
        dev == Deviations(data)
        ss == Sum([ i \in 1..n |-> dev[i] * dev[i] ])
    IN IF n < 2 THEN [ flagged |-> { }, divided |-> FALSE ]
       ELSE IF ss = 0 THEN [ flagged |-> { }, divided |-> FALSE ]
       ELSE [ flagged |-> { i \in 1..n :
                              dev[i] * dev[i]
                                > (ZNum * ZNum * ss) \div (ZDen * ZDen * n) },
              divided |-> TRUE ]

Tails == UNION { [ 1..m -> Samples ] : m \in 0..MaxTail }

zscoreFrame == << now, cb, pc, breakerObs, retryVars, managerVars, cacheVars, alertVars,
                 fallbackVars, pipelineVars, detectorVars, systemVars >>

\* A series: up to MaxRepeat values 50, then a tail.
InitZScore ==
    /\ now = 0
    /\ cb = CircuitBreaker(1, 0)
    /\ pc = "idle"
    /\ lastAct = "init"
    /\ outcome = "none"
    /\ invoked = 0
    /\ streak = 0
    /\ trials = 0
    /\ trialFailedAt = None
    /\ ncalls = 0
    /\ RetryIdle
    /\ ManagerIdle
    /\ CacheIdle
    /\ AlertIdle
    /\ FallbackIdle
    /\ PipelineIdle
    /\ DetectorIdle
    /\ SystemIdle
    /\ \E k \in 0..MaxRepeat, t \in Tails : series = Repeat(50, k) \o t
    /\ zscore = << >>

\* One call of _z_score_detection.
ZScoreCall ==
    /\ zscore = << >>
    /\ zscore' = _z_score_detection(series)
    /\ UNCHANGED << series, zscoreFrame >>

NextZScore == ZScoreCall

SpecZScore == InitZScore /\ [][NextZScore]_vars

\* The sum of the squares of a series.
SumSq(s) == Sum([ i \in DOMAIN s |-> s[i] * s[i] ])

\* C19: the points reported are exactly the x_i with |x_i - mean| > 2.5 * std
\* for the mean and the standard deviation of the population, that is with
\* ZDen^2 * (n*x_i - S)^2 > ZNum^2 * (n*SumSq - S^2); of 99 values 50 and one
\* value 500 exactly the 500 is reported; of a constant series nothing is
\* reported and nothing is divided.
C19_ZScore ==
    zscore # << >> =>
        LET n == Len(series)
            S == Sum(series)
            spread == n * SumSq(series) - S * S
        IN /\ zscore.flagged =
                { i \in 1..n :
                    (n * series[i] - S) * (n * series[i] - S)
                       > (ZNum * ZNum * spread) \div (ZDen * ZDen) }
           /\ series = Repeat(50, 99) \o << 500 >> => zscore.flagged = { 100 }
           /\ (\A i \in 1..n : series[i] = series[1])
                 => (zscore.flagged = { } /\ ~zscore.divided)

\* Of 99 values 50 and one 500, the 500 has been reported and nothing else.
C19_Witness ==
    /\ zscore # << >>
    /\ series = Repeat(50, 99) \o << 500 >>
    /\ zscore.flagged = { 100 }
    /\ zscore.divided

\* program constants: the defaults of AnomalyDetector.default_config
DefaultMinSamples == 10
DefaultWindow == 100
\* 24 hours, the unit of the detector's clock
DefaultRetrain == 1

Metrics == { "cpu" }

AnomalyDetectionConfig(alg, w, ms, r) ==
    [ algorithm |-> alg, window_size |-> w, min_samples |-> ms,
      retrain_interval_hours |-> r ]

default_config ==
    AnomalyDetectionConfig("isolation_forest", DefaultWindow, DefaultMinSamples,
                           DefaultRetrain)

\* The configurations a metric is given: an algorithm, a window shorter or
\* longer than the series, a min_samples below or above the default.
MetricConfigs ==
    { AnomalyDetectionConfig(alg, w, ms, DefaultRetrain) :
        alg \in { "z_score", "isolation_forest" },
        w \in { DefaultMinSamples + 1, DefaultWindow },
        ms \in { DefaultMinSamples - 5, DefaultMinSamples + 2 } }

\* len(_prepare_features(data, window_size)): the points themselves when the
\* series is shorter than the window, else one row per point after the window.
FeatureCount(data, w) == IF Len(data) < w THEN Len(data) ELSE Len(data) - w

_should_retrain(metric, c, t) ==
    \/ metric \notin models
    \/ metric \notin DOMAIN last_training
    \/ t - last_training[metric] > c.retrain_interval_hours

\* _train_model: the registry and the timestamps after it.  fit_ok: the
\* model could be created and fitted (every exception is caught inside).
_train_model(metric, data, c, fit_ok, t) ==
    IF FeatureCount(data, c.window_size) < c.min_samples
    THEN [ models |-> models, last_training |-> last_training ]
    ELSE IF ~fit_ok
    THEN [ models |-> models, last_training |-> last_training ]
    ELSE [ models |-> models \cup { metric },
           last_training |->
               [ m \in DOMAIN last_training \cup { metric } |->
                   IF m = metric THEN t ELSE last_training[m] ] ]

\* The elements of a set of numbers in rising order.
RECURSIVE Sorted(_)
Sorted(S) ==
    IF S = { } THEN << >>
    ELSE LET least == CHOOSE x \in S : \A y \in S : x <= y
         IN << least >> \o Sorted(S \ { least })

\* One AnomalyResult per reported point (index from 1).
AnomalyResults(metric, data, indices, alg) ==
    LET order == Sorted(indices)
    IN [ j \in 1..Len(order) |->
           [ metric_name |-> metric, index |-> order[j], value |-> data[order[j]],
             algorithm |-> alg ] ]

\* _detect_with_statistical_methods: z-score for every algorithm of the model
\* (its own branch, or the fallback branch).
_detect_with_statistical_methods(metric, data, c) ==
    AnomalyResults(metric, data, _z_score_detection(data).flagged, "z_score")

\* _detect_with_ml_model.  pred: what the model does with the features: it
\* raises, or it marks a set of rows (from 0); row i is point window_size + i
\* (from 0) and is reported only if that is inside the series.
_detect_with_ml_model(metric, data, c, pred) ==
    IF FeatureCount(data, c.window_size) = 0 THEN << >>
    ELSE IF pred.raises THEN _detect_with_statistical_methods(metric, data, c)
    ELSE AnomalyResults(metric, data,
                        { c.window_size + i + 1 :
                            i \in { r \in pred.marked : c.window_size + r < Len(data) } },
                        c.algorithm)

\* A detect_anomalies that gives up, with no results, when the training it
\* asked for has left the metric without a model.
detect_anomalies_gives_up(metric, data, fit_ok, pred, t) ==
    IF Len(data) < default_config.min_samples
    THEN [ results |-> << >>, models |-> models, last_training |-> last_training,
           anomaly_history |-> anomaly_history, train_calls |-> 0 ]
    ELSE LET metric_config == IF metric \in DOMAIN config THEN config[metric]
                              ELSE default_config
             retrain == _should_retrain(metric, metric_config, t)
             trained == IF retrain
                        THEN _train_model(metric, data, metric_config, fit_ok, t)
                        ELSE [ models |-> models, last_training |-> last_training ]
             results == IF metric \in trained.models
                        THEN _detect_with_ml_model(metric, data, metric_config, pred)
                        ELSE << >>
         IN [ results |-> results, models |-> trained.models,
              last_training |-> trained.last_training,
              anomaly_history |-> anomaly_history \o results,
              train_calls |-> IF retrain THEN 1 ELSE 0 ]

\* AnomalyDetector.detect_anomalies: what it returns, the state it leaves and
\* the number of _train_model calls it made.
detect_anomalies(metric, data, fit_ok, pred, t) ==
    IF Len(data) < default_config.min_samples
    THEN [ results |-> << >>, models |-> models, last_training |-> last_training,
           anomaly_history |-> anomaly_history, train_calls |-> 0 ]
    ELSE LET metric_config == IF metric \in DOMAIN config THEN config[metric]
                              ELSE default_config
             retrain == _should_retrain(metric, metric_config, t)
             trained == IF retrain
                        THEN _train_model(metric, data, metric_config, fit_ok, t)
                        ELSE [ models |-> models, last_training |-> last_training ]
             results == IF metric \in trained.models
                        THEN _detect_with_ml_model(metric, data, metric_config, pred)
                        ELSE _detect_with_statistical_methods(metric, data,
                                                              metric_config)
         IN [ results |-> results, models |-> trained.models,
              last_training |-> trained.last_training,
              anomaly_history |-> anomaly_history \o results,
              train_calls |-> IF retrain THEN 1 ELSE 0 ]

\* The series detect_anomalies is called with: none, or values 50 and
\* maybe a 500, of a length near default_config.min_samples.
DetectSeries ==
    { << >> } \cup
    { Repeat(50, k) \o t : k \in (DefaultMinSamples - 2)..MaxSeries,
                           t \in { << >>, << 500 >> } }

\* What a trained model may do with the features of a series.  A series
\* shorter than the window has none of its rows reported, whatever is marked.
Predictions(data, w) ==
    { [ raises |-> TRUE, marked |-> { } ] } \cup
    [ raises : { FALSE },
      marked : IF Len(data) < w THEN { { } }
               ELSE SUBSET (0..(FeatureCount(data, w) - 1)) ]

detectorFrame == << cb, pc, breakerObs, retryVars, managerVars, cacheVars, alertVars,
                   fallbackVars, pipelineVars, zscore, systemVars >>

\* The trained_at of a model artifact found on disk by _load_saved_models: the
\* artifact was written just before the detector was built.
RestoredAt == 0

\* A detector without saved models, or with the metric's model restored from
\* disk (_load_saved_models fills models and model_metadata, not
\* last_training); the metric has a configuration of its own or none.
InitAnomaly ==
    /\ now = 0
    /\ cb = CircuitBreaker(1, 0)
    /\ pc = "idle"
    /\ lastAct = "init"
    /\ outcome = "none"
    /\ invoked = 0
    /\ streak = 0
    /\ trials = 0
    /\ trialFailedAt = None
    /\ ncalls = 0
    /\ RetryIdle
    /\ ManagerIdle
    /\ CacheIdle
    /\ AlertIdle
    /\ FallbackIdle
    /\ PipelineIdle
    /\ ZScoreIdle
    /\ SystemIdle
    /\ \/ config = << >>
       \/ \E c \in MetricConfigs : config = [ m \in Metrics |-> c ]
    /\ models \in { { }, Metrics }
    /\ last_training = << >>
    /\ anomaly_history = << >>
    /\ detectRet = << >>

\* One call of detect_anomalies.
DetectAnomalies ==
    \E metric \in Metrics, data \in DetectSeries, fit_ok \in BOOLEAN :
        LET w == (IF metric \in DOMAIN config THEN config[metric]
                  ELSE default_config).window_size
        IN \E pred \in Predictions(data, w) :
             \E r \in { detect_anomalies(metric, data, fit_ok, pred, now) } :
                /\ Len(r.anomaly_history) <= MaxHistory
                /\ series' = data
                /\ models' = r.models
                /\ last_training' = r.last_training
                /\ anomaly_history' = r.anomaly_history
                /\ detectRet' = [ results |-> r.results, train_calls |-> r.train_calls ]
                /\ UNCHANGED << now, config, detectorFrame >>

\* Time passes.
DetectTick ==
    /\ now < MaxDetectTime
    /\ now' = now + 1
    /\ UNCHANGED << series, detectorVars, detectorFrame >>

NextAnomaly == DetectAnomalies \/ DetectTick

SpecAnomaly == InitAnomaly /\ [][NextAnomaly]_vars

\* a call of detect_anomalies
DetectStep == detectRet' # << >> /\ << series, detectorVars >>' # << series, detectorVars >>

\* When the model of the metric was trained: by this detector, or as its
\* restored artifact says.
trained_at(metric) ==
    IF metric \in DOMAIN last_training THEN last_training[metric] ELSE RestoredAt

\* C32: a call with enough data retrains the model of the metric before
\* scoring if and only if the metric has no trained model or the model is at
\* least retrain_interval old; a younger model, restored ones included, is
\* reused, one exactly retrain_interval old is retrained.
C32_RetrainDecision ==
    [][ \A metric \in Metrics :
          LET metric_config == IF metric \in DOMAIN config THEN config[metric]
                               ELSE default_config
          IN (DetectStep /\ Len(series') >= default_config.min_samples)
               => ((detectRet'.train_calls = 1)
                     <=> \/ metric \notin models
                         \/ now - trained_at(metric)
                               >= metric_config.retrain_interval_hours) ]_vars

\* C34: a training that fails does not surface: the call returns a list, and
\* when the metric is left without a model after the training the call asked
\* for, the list is what statistical detection gives for the series.
C34_TrainingFailure ==
    [][ \A metric \in Metrics :
          LET metric_config == IF metric \in DOMAIN config THEN config[metric]
                               ELSE default_config
          IN DetectStep =>
               /\ DOMAIN detectRet'.results = 1..Len(detectRet'.results)
               /\ (detectRet'.train_calls = 1 /\ metric \notin models')
                     => detectRet'.results =
                           _detect_with_statistical_methods(metric, series',
                                                            metric_config) ]_vars

\* A call whose training failed has reported the outlier of the series by
\* statistical detection.
C34_Witness ==
    /\ detectRet # << >>
    /\ detectRet.train_calls = 1
    /\ models = { }
    /\ Len(detectRet.results) = 1
    /\ detectRet.results[1].algorithm = "z_score"
    /\ detectRet.results[1].value = 500

\* C20: a call with fewer values than the min_samples configured for the
\* metric returns an empty list and leaves the model registry, the training
\* timestamps and the anomaly history as they were.
C20_InsufficientData ==
    [][ \A metric \in Metrics :
          LET metric_config == IF metric \in DOMAIN config THEN config[metric]
                               ELSE default_config
          IN (DetectStep /\ Len(series') < metric_config.min_samples)
               => /\ detectRet'.results = << >>
                  /\ UNCHANGED << models, last_training, anomaly_history >> ]_vars

\* ------------------------------------------ MemoryCache, concurrent callers
\* MemoryCache holds no lock: a thread may be preempted between any two of
\* its statements.  One step is one statement that reads or writes self.cache.

Threads == 1..MaxThreads

NoLocal == [ op |-> "none", key |-> "", ttl |-> 0, aux |-> << >> ]

\* The state the thread specifications leave alone.
quietVars == << retryVars, managerVars, fallbackVars, pipelineVars, anomalyVars,
               orchVars, nestVars, auxVars >>
QuietIdle ==
    /\ RetryIdle
    /\ ManagerIdle
    /\ FallbackIdle
    /\ PipelineIdle
    /\ AnomalyIdle
    /\ OrchIdle
    /\ NestIdle
    /\ AuxIdle

cacheThreadFrame == << max_size, default_ttl, ret, touchOrder, arg, did, cb, pc,
                      breakerObs, alertVars, quietVars >>

\* self.cache[key] = item: a key already stored keeps its place.
SetItem(c, k, item) ==
    IF k \in KeysOf(c)
    THEN [ i \in DOMAIN c |-> IF c[i].key = k THEN item ELSE c[i] ]
    ELSE Append(c, item)

\* Thread t goes on at statement p / with local variable aux set to x.
Goto(t, p) == tpc' = [ tpc EXCEPT ![t] = p ]
Keep(t, x) == tlocal' = [ tlocal EXCEPT ![t].aux = x ]

\* The statement of thread t raises: nothing in MemoryCache catches it.
Raise(t, err) ==
    /\ Goto(t, "failed")
    /\ Keep(t, << err >>)
    /\ UNCHANGED cache

\* The operation of thread t returns.
Return(t) ==
    /\ Goto(t, "idle")
    /\ tlocal' = [ tlocal EXCEPT ![t] = NoLocal ]

\* del self.cache[k] by thread t, which goes on at p
Del(t, k, p) ==
    IF k \in KeysOf(cache)
    THEN cache' = Without(cache, { k }) /\ Goto(t, p) /\ UNCHANGED tlocal
    ELSE Raise(t, "KeyError")

\* A thread calls set, get, delete or cleanup_expired.
ThreadCall(t) ==
    /\ tpc[t] = "idle"
    /\ \E op \in { "set", "get", "delete", "cleanup_expired" },
          k \in { "k1", "k2" }, a \in TTLArgs :
         /\ tlocal' = [ tlocal EXCEPT ![t] =
                [ op |-> op,
                  key |-> IF op = "cleanup_expired" THEN "" ELSE k,
                  ttl |-> IF op # "set" THEN 0
                          ELSE IF a = << >> THEN default_ttl ELSE a[1],
                  aux |-> << >> ] ]
         /\ Goto(t, op)
    /\ UNCHANGED << now, cache, cacheThreadFrame >>

\* MemoryCache.set, statement by statement
ThreadSet(t) ==
    /\ tlocal[t].op = "set"
    /\ LET k == tlocal[t].key IN
       CASE tpc[t] = "set" ->          \* if key in self.cache
              /\ Goto(t, IF k \in KeysOf(cache) THEN "set_del" ELSE "set_len")
              /\ UNCHANGED << cache, tlocal >>
         [] tpc[t] = "set_del" ->      \* del self.cache[key]
              Del(t, k, "set_len")
         [] tpc[t] = "set_len" ->      \* if len(self.cache) >= self.max_size
              /\ Goto(t, IF Len(cache) >= max_size THEN "set_oldest" ELSE "set_store")
              /\ UNCHANGED << cache, tlocal >>
         [] tpc[t] = "set_oldest" ->   \* oldest_key = next(iter(self.cache))
              IF cache = << >>
              THEN Raise(t, "StopIteration")
              ELSE /\ Keep(t, << cache[1].key >>)
                   /\ Goto(t, "set_evict")
                   /\ UNCHANGED cache
         [] tpc[t] = "set_evict" ->    \* del self.cache[oldest_key]
              Del(t, tlocal[t].aux[1], "set_store")
         [] tpc[t] = "set_store" ->    \* self.cache[key] = CacheItem(key, value, ttl)
              /\ cache' = SetItem(cache, k, CacheItem(k, "a", tlocal[t].ttl, now))
              /\ Goto(t, "set_move")
              /\ UNCHANGED tlocal
         [] tpc[t] = "set_move" ->     \* self.cache.move_to_end(key)
              IF k \in KeysOf(cache)
              THEN cache' = move_to_end(cache, k) /\ Return(t)
              ELSE Raise(t, "KeyError")
         [] OTHER -> FALSE
    /\ UNCHANGED << now, cacheThreadFrame >>

\* MemoryCache.get, statement by statement
ThreadGet(t) ==
    /\ tlocal[t].op = "get"
    /\ LET k == tlocal[t].key IN
       CASE tpc[t] = "get" ->          \* if key not in self.cache: return default
              /\ IF k \in KeysOf(cache)
                 THEN Goto(t, "get_item") /\ UNCHANGED tlocal
                 ELSE Return(t)
              /\ UNCHANGED cache
         [] tpc[t] = "get_item" ->     \* item = self.cache[key]
              IF k \in KeysOf(cache)
              THEN /\ Keep(t, << Item(cache, k) >>)
                   /\ Goto(t, "get_expired")
                   /\ UNCHANGED cache
              ELSE Raise(t, "KeyError")
         [] tpc[t] = "get_expired" ->  \* if item.is_expired()
              /\ Goto(t, IF is_expired(tlocal[t].aux[1], now) THEN "get_del"
                         ELSE "get_move")
              /\ UNCHANGED << cache, tlocal >>
         [] tpc[t] = "get_del" ->      \* del self.cache[key]; return default
              IF k \in KeysOf(cache)
              THEN cache' = Without(cache, { k }) /\ Return(t)
              ELSE Raise(t, "KeyError")
         [] tpc[t] = "get_move" ->     \* self.cache.move_to_end(key); return item.value
              IF k \in KeysOf(cache)
              THEN cache' = move_to_end(cache, k) /\ Return(t)
              ELSE Raise(t, "KeyError")
         [] OTHER -> FALSE
    /\ UNCHANGED << now, cacheThreadFrame >>

\* MemoryCache.delete, statement by statement
ThreadDelete(t) ==
    /\ tlocal[t].op = "delete"
    /\ LET k == tlocal[t].key IN
       CASE tpc[t] = "delete" ->       \* if key in self.cache ... return False
              /\ IF k \in KeysOf(cache)
                 THEN Goto(t, "delete_del") /\ UNCHANGED tlocal
                 ELSE Return(t)
              /\ UNCHANGED cache
         [] tpc[t] = "delete_del" ->   \* del self.cache[key]; return True
              IF k \in KeysOf(cache)
              THEN cache' = Without(cache, { k }) /\ Return(t)
              ELSE Raise(t, "KeyError")
         [] OTHER -> FALSE
    /\ UNCHANGED << now, cacheThreadFrame >>

\* MemoryCache.cleanup_expired: the list of the expired keys (taken in one
\* step), then one del per key
ThreadCleanup(t) ==
    /\ tlocal[t].op = "cleanup_expired"
    /\ CASE tpc[t] = "cleanup_expired" ->
              /\ Keep(t, expired_keys(cache, now))
              /\ Goto(t, "cleanup_del")
              /\ UNCHANGED cache
         [] tpc[t] = "cleanup_del" ->
              IF tlocal[t].aux = << >>
              THEN Return(t) /\ UNCHANGED cache
              ELSE IF Head(tlocal[t].aux) \in KeysOf(cache)
              THEN /\ cache' = Without(cache, { Head(tlocal[t].aux) })
                   /\ Keep(t, Tail(tlocal[t].aux))
                   /\ UNCHANGED tpc
              ELSE Raise(t, "KeyError")
         [] OTHER -> FALSE
    /\ UNCHANGED << now, cacheThreadFrame >>

\* Time passes.
ThreadTick ==
    /\ now < MaxCacheTime
    /\ now' = now + 1
    /\ UNCHANGED << cache, threadVars, cacheThreadFrame >>

\* An empty cache and MaxThreads threads that share it.
InitCacheThreads ==
    /\ now = 0
    /\ cb = CircuitBreaker(1, 0)
    /\ pc = "idle"
    /\ lastAct = "init"
    /\ outcome = "none"
    /\ invoked = 0
    /\ streak = 0
    /\ trials = 0
    /\ trialFailedAt = None
    /\ ncalls = 0
    /\ QuietIdle
    /\ AlertIdle
    /\ max_size \in 1..MaxSize
    /\ default_ttl = MaxTTL
    /\ cache = << >>
    /\ ret = << >>
    /\ touchOrder = << >>
    /\ arg = << >>
    /\ did = "none"
    /\ tpc = [ t \in Threads |-> "idle" ]
    /\ tlocal = [ t \in Threads |-> NoLocal ]

NextCacheThreads ==
    \/ \E t \in Threads : ThreadCall(t)
    \/ \E t \in Threads : ThreadSet(t)
    \/ \E t \in Threads : ThreadGet(t)
    \/ \E t \in Threads : ThreadDelete(t)
    \/ \E t \in Threads : ThreadCleanup(t)
    \/ ThreadTick

SpecCacheThreads == InitCacheThreads /\ [][NextCacheThreads]_vars

\* C21: with two or more threads calling get, set, delete and cleanup_expired
\* on one cache, the cache never holds more than max_size entries and no
\* operation fails because another caller inserted or removed a key between
\* its check and its update.
C21_AtomicOperations ==
    /\ Len(cache) <= max_size
    /\ \A t \in DOMAIN tpc : tpc[t] # "failed"

\* --------------------------------------------------- CloudDataOrchestratorV2

\* program constants: the default thresholds of _check_system_health
CpuThreshold == 80
MemoryThreshold == 85
ErrorRateThreshold == 5

Workers == { "monitoring", "alert", "ml", "main" }

\* The order of the joins of stop().
JoinOrder == << "monitoring", "alert", "ml" >>

\* A getter of the metrics collector raised.
Raises == -3

\* What a monitoring pass may sample: values at and above the thresholds; the
\* pipeline metrics may also fail to be read.
Samples3 ==
    [ cpu : { CpuThreshold, CpuThreshold + 1 },
      memory : { MemoryThreshold, MemoryThreshold + 1 },
      error_rate : { Raises, ErrorRateThreshold, ErrorRateThreshold + 1 } ]

\* What the sample m is, for the observer.
SampleClass(m) ==
    IF m.error_rate = Raises THEN "unreadable"
    ELSE IF \/ m.cpu > CpuThreshold
            \/ m.memory > MemoryThreshold
            \/ m.error_rate > ErrorRateThreshold
    THEN "exceeds"
    ELSE "within"

\* _health_check: "unhealthy" as soon as the check of one component raises.
\* metrics, cache and validator are always checked, the others if present.
_health_check ==
    LET checked == { "metrics", "cache", "validator" } \cup present
    IN IF checked \cap broken # { } THEN "unhealthy" ELSE "healthy"

\* _check_system_health, for the sample m and the status h before it
_check_system_health(h, m) ==
    LET h1 == IF m.cpu > CpuThreshold THEN "warning" ELSE h
        h2 == IF m.memory > MemoryThreshold THEN "warning" ELSE h1
    IN IF m.error_rate = Raises THEN "error"
       ELSE LET h3 == IF m.error_rate > ErrorRateThreshold THEN "warning" ELSE h2
            IN IF h3 # "error" THEN "healthy" ELSE h3

\* A worker loop that goes on whatever the flag says.
LoopTest_always(w) == TRUE

\* The condition of the while loop of worker w.
LoopTest(w) ==
    CASE w = "alert" -> is_running /\ "alerts" \in present
      [] w = "ml"    -> is_running /\ "ml" \in present
      [] OTHER       -> is_running

\* A worker that an exception ends.
Caught_ends(w) == "done"

\* except Exception at the end of the loop body of worker w: log, sleep, go on
Caught(w) == "recover"

orchFrame == << now, cb, pc, breakerObs, retryVars, managerVars, cacheVars, alertVars,
               fallbackVars, pipelineVars, anomalyVars, threadVars, nestVars, auxVars >>

\* CloudDataOrchestratorV2.__init__ with a configuration, in an environment
\* where some component may be out of order.
InitOrchestrator ==
    /\ now = 0
    /\ cb = CircuitBreaker(1, 0)
    /\ pc = "idle"
    /\ lastAct = "init"
    /\ outcome = "none"
    /\ invoked = 0
    /\ streak = 0
    /\ trials = 0
    /\ trialFailedAt = None
    /\ ncalls = 0
    /\ RetryIdle
    /\ ManagerIdle
    /\ CacheIdle
    /\ AlertIdle
    /\ FallbackIdle
    /\ PipelineIdle
    /\ AnomalyIdle
    /\ ThreadIdle
    /\ NestIdle
    /\ AuxIdle
    /\ is_running = FALSE
    /\ health_status = "healthy"
    /\ present \in { { }, { "alerts", "ml" } }
    /\ broken \in { { }, { "metrics" }, { "cache" }, { "alerts" } }
    /\ phase = "new"
    /\ wpc = [ w \in Workers |-> "none" ]
    /\ stopPc = "none"
    /\ joins = 0
    /\ sample = "none"

\* start(): initialize (which ends with _health_check), set the flag, start
\* the threads and enter the main loop.  init_ok: the components could be built.
Start ==
    /\ phase = "new"
    /\ ~is_running
    /\ \E init_ok \in BOOLEAN :
         IF init_ok
         THEN /\ health_status' = _health_check
              /\ is_running' = TRUE
              /\ phase' = "started"
              /\ wpc' = [ w \in Workers |->
                            CASE w = "alert" -> IF "alerts" \in present THEN "test"
                                                ELSE "none"
                              [] w = "ml"    -> IF "ml" \in present THEN "test"
                                                ELSE "none"
                              [] OTHER       -> "test" ]
         ELSE /\ health_status' = "error"
              /\ phase' = "failed"
              /\ UNCHANGED << is_running, wpc >>
    /\ UNCHANGED << present, broken, stopPc, joins, sample, orchFrame >>

\* _health_check, called again from outside (the API's /health)
HealthCheck ==
    /\ phase = "started"
    /\ health_status' = _health_check
    /\ UNCHANGED << is_running, present, broken, phase, wpc, stopPc, joins, sample,
                    orchFrame >>

\* The while test of worker w.
WorkerTest(w) ==
    /\ wpc[w] = "test"
    /\ wpc' = [ wpc EXCEPT ![w] = IF LoopTest(w) THEN "body" ELSE "done" ]
    /\ UNCHANGED << is_running, health_status, present, broken, phase, stopPc, joins,
                    sample, orchFrame >>

\* One loop body of worker w, its sleep included; an exception leaves it for
\* the handler.  The monitoring and the ml worker read the metrics first, the
\* alert worker calls check_alerts; raised: some other statement raised.
WorkerBody(w) ==
    /\ wpc[w] = "body"
    /\ \E raised \in BOOLEAN :
         LET fails == \/ raised
                      \/ w \in { "monitoring", "ml" } /\ "metrics" \in broken
                      \/ w = "alert" /\ "alerts" \in broken
         IN IF fails
            THEN /\ wpc' = [ wpc EXCEPT ![w] = Caught(w) ]
                 /\ sample' = IF w = "monitoring" THEN "failed" ELSE sample
                 /\ UNCHANGED health_status
            ELSE /\ wpc' = [ wpc EXCEPT ![w] = "test" ]
                 /\ IF w = "monitoring"
                    THEN \E m \in Samples3 :
                           /\ health_status' = _check_system_health(health_status, m)
                           /\ sample' = SampleClass(m)
                    ELSE UNCHANGED << health_status, sample >>
    /\ UNCHANGED << is_running, present, broken, phase, stopPc, joins, orchFrame >>

\* The sleep of the handler is over.
WorkerResume(w) ==
    /\ wpc[w] = "recover"
    /\ wpc' = [ wpc EXCEPT ![w] = "test" ]
    /\ UNCHANGED << is_running, health_status, present, broken, phase, stopPc, joins,
                    sample, orchFrame >>

WorkerStep(w) == WorkerTest(w) \/ WorkerBody(w) \/ WorkerResume(w)

\* stop(): clear the flag.
Stop ==
    /\ stopPc = "none"
    /\ phase = "started"
    /\ is_running' = FALSE
    /\ stopPc' = "join1"
    /\ UNCHANGED << health_status, present, broken, phase, wpc, joins, sample,
                    orchFrame >>

JoinAt == CASE stopPc = "join1" -> 1 [] stopPc = "join2" -> 2 [] OTHER -> 3

\* stop(): the next thread of JoinOrder, joined if it is there and alive; the
\* join ends when the thread has ended or when its timeout is over.
StopJoin ==
    /\ stopPc \in { "join1", "join2", "join3" }
    /\ joins' = IF wpc[JoinOrder[JoinAt]] \in { "none", "done" } THEN joins
                ELSE joins + 1
    /\ stopPc' = CASE stopPc = "join1" -> "join2"
                   [] stopPc = "join2" -> "join3"
                   [] OTHER -> "returned"
    /\ UNCHANGED << is_running, health_status, present, broken, phase, wpc, sample,
                    orchFrame >>

NextOrchestrator ==
    \/ Start
    \/ HealthCheck
    \/ \E w \in Workers : WorkerTest(w)
    \/ \E w \in Workers : WorkerBody(w)
    \/ \E w \in Workers : WorkerResume(w)
    \/ Stop
    \/ StopJoin

SpecOrchestrator == InitOrchestrator /\ [][NextOrchestrator]_vars

\* The threads are scheduled and their sleeps end; stop() goes on.
SpecOrchestratorFair ==
    /\ SpecOrchestrator
    /\ \A w \in Workers : WF_vars(WorkerStep(w))
    /\ WF_vars(StopJoin)

\* ------------------------------------------------- claims: the orchestrator
Terminated(w) == wpc[w] \in { "none", "done" }

\* C22: once stop() has cleared is_running (and no start() follows), a worker
\* or the main cycle that reaches its while test begins no further iteration,
\* every one of them eventually ends, and stop() returns after at most one
\* join per worker thread, whether or not the threads have ended.
C22_CooperativeShutdown ==
    /\ [][ /\ \A w \in Workers :
                (stopPc # "none" /\ wpc[w] = "test") => wpc'[w] \in { "test", "done" }
           /\ stopPc # "none" => ~is_running'
           /\ joins' <= Len(JoinOrder)
           /\ joins' # joins => (joins' = joins + 1 /\ stopPc' # stopPc) ]_vars
    /\ (stopPc # "none") ~> (\A w \in Workers : Terminated(w))
    /\ (stopPc # "none") ~> (stopPc = "returned")

\* stop() has returned after three joins while the main cycle was still in an
\* iteration.
C22_Witness ==
    /\ stopPc = "returned"
    /\ joins = 3
    /\ wpc["main"] = "body"
    /\ ~is_running

\* C29: an exception inside an iteration of a worker or of the main cycle is
\* caught at the end of the loop body: the step ends neither that worker nor
\* any other one, and while is_running stays set the worker gets from the
\* handler to another iteration.
C29_FailureIsolation ==
    /\ [][ \A w \in Workers :
             wpc[w] = "body" =>
                /\ wpc'[w] \in { "body", "test", "recover" }
                /\ wpc'[w] = "recover" =>
                      \A v \in Workers \ { w } : wpc'[v] = wpc[v] ]_vars
    /\ \A w \in Workers :
          (wpc[w] = "recover") ~> (wpc[w] = "body" \/ ~is_running)

\* The monitoring worker is in its handler after a pass that raised, the alert
\* worker, whose check_alerts raises, is in an iteration, the system runs on.
C29_Witness ==
    /\ is_running
    /\ sample = "failed"
    /\ wpc["monitoring"] = "recover"
    /\ wpc["alert"] = "body"
    /\ "alerts" \in broken

\* Some component that _health_check looks at is out of order.
SomeUnhealthy == ({ "metrics", "cache", "validator" } \cup present) \cap broken # { }

\* C23: the health check of start() reports healthy if every component check
\* passes and unhealthy if one raises, and while a component is out of order
\* no later step (a monitoring pass, a further health check) reports healthy.
C23_WorstOf ==
    [][ /\ (phase = "new" /\ phase' = "started")
             => health_status' = IF SomeUnhealthy THEN "unhealthy" ELSE "healthy"
        /\ (phase = "started" /\ SomeUnhealthy) => health_status' # "healthy" ]_vars

\* a monitoring pass ends
PassStep == wpc["monitoring"] = "body" /\ wpc'["monitoring"] # "body"

\* C30: after a monitoring pass that sampled a value above its threshold the
\* health is warning, it is healthy after a pass only if no sampled value is
\* above its threshold, and it is error after a pass that failed.
C30_Reclassification ==
    [][ PassStep =>
          /\ sample' = "exceeds" => health_status' = "warning"
          /\ health_status' = "healthy" => sample' = "within"
          /\ sample' \in { "failed", "unreadable" } => health_status' = "error" ]_vars

\* ------------------------------------- a retry handler around a breaker call
\* The classes of the errors an operation raises: the three of Errors derive
\* from Exception, and an operation may raise Exception itself.
OpClasses == Errors \cup { "Exception" }

\* The test of an except clause: e is an instance of one of the classes.
IsInstance(e, classes) ==
    e \in classes \/ (e \in OpClasses /\ "Exception" \in classes)

\* The class of the error CircuitBreaker.call raises on an Open breaker that
\* is not due for a reset.
OpenError == "Exception"

\* RetryHandler.exceptions: the default, and tuples of the operation's classes.
Handlers == { { "Exception" }, exceptions, Errors }

\* The default of CircuitBreaker.expected_exception.
DefaultExpected == { "Exception" }

nestFrame == << pc, streak, trials, trialFailedAt, max_attempts, script, retried,
                managerVars, cacheVars, alertVars, fallbackVars, pipelineVars,
                anomalyVars, threadVars, orchVars, auxVars >>

\* A breaker with the default expected_exception and a retry handler that
\* wraps the function calling it.
InitNested ==
    /\ now = 0
    /\ \E th \in 1..MaxThreshold, to \in 0..MaxTimeout : cb = CircuitBreaker(th, to)
    /\ pc = "idle"
    /\ lastAct = "init"
    /\ outcome = "none"
    /\ invoked = 0
    /\ streak = 0
    /\ trials = 0
    /\ trialFailedAt = None
    /\ ncalls = 0
    /\ max_attempts \in 1..MaxAttempts
    /\ script = << >>
    /\ retried = << >>
    /\ ManagerIdle
    /\ CacheIdle
    /\ AlertIdle
    /\ FallbackIdle
    /\ PipelineIdle
    /\ AnomalyIdle
    /\ ThreadIdle
    /\ OrchIdle
    /\ AuxIdle
    /\ handled \in Handlers
    /\ loopAttempt = 0
    /\ rejRetried = 0

\* One iteration of the retry wrapper's loop, the first one included: the try
\* calls CircuitBreaker.call, which rejects or invokes the operation, and the
\* except clause takes the error if it is an instance of `handled`.
NestedAttempt ==
    LET n == IF loopAttempt = 0 THEN 1 ELSE loopAttempt
        a == Admit(cb, now)
    IN /\ loopAttempt = 0 => ncalls < MaxCalls
       /\ ncalls' = IF loopAttempt = 0 THEN ncalls + 1 ELSE ncalls
       /\ \E o \in { "ok" } \cup OpClasses :
            LET raised == IF a.admitted THEN o ELSE OpenError
                again  == /\ raised # "ok"
                          /\ IsInstance(raised, handled)
                          /\ n < max_attempts
            IN /\ cb' = IF a.admitted
                        THEN Settle(a.b, IF o = "ok" THEN "ok"
                                         ELSE IF IsInstance(o, DefaultExpected)
                                         THEN "expected" ELSE "unexpected", now)
                        ELSE a.b
               /\ lastAct' = IF a.admitted THEN "return" ELSE "reject"
               /\ invoked' = IF a.admitted THEN 1 ELSE 0
               /\ outcome' = raised
               /\ loopAttempt' = IF again THEN n + 1 ELSE 0
               /\ rejRetried' = IF again /\ ~a.admitted THEN rejRetried + 1
                                ELSE rejRetried
       /\ UNCHANGED << now, handled, nestFrame >>

\* Time passes: between two calls, and in the sleep between two attempts.
NestedTick ==
    /\ now < MaxTime
    /\ now' = now + 1
    /\ UNCHANGED << cb, breakerObs, nestVars, nestFrame >>

NextNested == NestedAttempt \/ NestedTick

SpecNested == InitNested /\ [][NextNested]_vars

\* an iteration of the retry wrapper's loop
AttemptStep == ncalls' # ncalls \/ loopAttempt' # loopAttempt

\* C24: the error of a call rejected by an Open breaker is of no class the
\* operation raises, and a retry handler around the call whose exceptions are
\* classes of the operation's errors lets it through: the rejection ends the
\* handler's loop and is not retried.
C24_DedicatedRejection ==
    [][ (AttemptStep /\ lastAct' = "reject")
          => /\ outcome' \notin OpClasses
             /\ loopAttempt' = 0
             /\ rejRetried' = rejRetried ]_vars

\* --------------------------------------- CircuitBreaker, concurrent callers
\* CircuitBreaker holds no lock: a caller may be preempted between any two
\* statements of call, and between the load and the store of a `+= 1`.

breakerThreadFrame == << pc, lastAct, outcome, invoked, trialFailedAt, cacheVars,
                        alertVars, quietVars >>

\* A breaker and MaxThreads threads that call it.
InitBreakerThreads ==
    /\ now = 0
    /\ \E th \in 1..MaxThreshold, to \in 0..MaxTimeout : cb = CircuitBreaker(th, to)
    /\ pc = "idle"
    /\ lastAct = "init"
    /\ outcome = "none"
    /\ invoked = 0
    /\ streak = 0
    /\ trials = 0
    /\ trialFailedAt = None
    /\ ncalls = 0
    /\ QuietIdle
    /\ CacheIdle
    /\ AlertIdle
    /\ tpc = [ t \in Threads |-> "idle" ]
    /\ tlocal = [ t \in Threads |-> NoLocal ]

\* A thread calls CircuitBreaker.call.
BreakerCall(t) ==
    /\ tpc[t] = "idle"
    /\ ncalls < MaxCalls
    /\ ncalls' = ncalls + 1
    /\ Goto(t, "call")
    /\ tlocal' = [ tlocal EXCEPT ![t].op = "call" ]
    /\ UNCHANGED << now, cb, streak, trials, breakerThreadFrame >>

\* The entry of CircuitBreaker.call, statement by statement.  trials counts
\* the callers let through to the operation while the breaker is HalfOpen.
BreakerEnter(t) ==
    /\ CASE tpc[t] = "call" ->         \* if self.state == CircuitState.OPEN
              /\ Goto(t, IF cb.state = "open" THEN "reset_test" ELSE "invoke")
              /\ trials' = IF cb.state = "half_open" THEN trials + 1 ELSE trials
              /\ UNCHANGED << cb, tlocal >>
         [] tpc[t] = "reset_test" ->   \* if self._should_attempt_reset(), else raise
              /\ IF _should_attempt_reset(cb, now)
                 THEN Goto(t, "to_half") /\ UNCHANGED tlocal
                 ELSE Return(t)
              /\ UNCHANGED << cb, trials >>
         [] tpc[t] = "to_half" ->      \* self.state = CircuitState.HALF_OPEN
              /\ cb' = [ cb EXCEPT !.state = "half_open" ]
              /\ trials' = trials + 1
              /\ Goto(t, "invoke")
              /\ UNCHANGED tlocal
         [] tpc[t] = "invoke" ->       \* result = func(*args, **kwargs)
              /\ \E o \in { "ok", "expected" } :
                    Goto(t, IF o = "ok" THEN "ok_zero" ELSE "fail_load")
              /\ UNCHANGED << cb, trials, tlocal >>
         [] OTHER -> FALSE
    /\ UNCHANGED << now, streak, ncalls, breakerThreadFrame >>

\* CircuitBreaker._on_failure, statement by statement
BreakerFailure(t) ==
    /\ CASE tpc[t] = "fail_load" ->    \* self.failure_count += 1: the load
              /\ Keep(t, << cb.failure_count >>)
              /\ Goto(t, "fail_store")
              /\ UNCHANGED << cb, streak, trials >>
         [] tpc[t] = "fail_store" ->   \* self.failure_count += 1: the store
              /\ cb' = [ cb EXCEPT !.failure_count = tlocal[t].aux[1] + 1 ]
              /\ Goto(t, "fail_time")
              /\ UNCHANGED << tlocal, streak, trials >>
         [] tpc[t] = "fail_time" ->    \* self.last_failure_time = datetime.now()
              /\ cb' = [ cb EXCEPT !.last_failure_time = now ]
              /\ Goto(t, "fail_test")
              /\ UNCHANGED << tlocal, streak, trials >>
         [] tpc[t] = "fail_test" ->    \* if failure_count >= failure_threshold; raise e
              /\ IF cb.failure_count >= cb.failure_threshold
                 THEN cb' = [ cb EXCEPT !.state = "open" ] /\ trials' = 0
                 ELSE UNCHANGED << cb, trials >>
              /\ streak' = streak + 1
              /\ Return(t)
         [] OTHER -> FALSE
    /\ UNCHANGED << now, ncalls, breakerThreadFrame >>

\* CircuitBreaker._on_success, statement by statement
BreakerSuccess(t) ==
    /\ CASE tpc[t] = "ok_zero" ->      \* self.failure_count = 0
              /\ cb' = [ cb EXCEPT !.failure_count = 0 ]
              /\ Goto(t, "ok_load")
              /\ UNCHANGED << tlocal, streak, trials >>
         [] tpc[t] = "ok_load" ->      \* self.success_count += 1: the load
              /\ Keep(t, << cb.success_count >>)
              /\ Goto(t, "ok_store")
              /\ UNCHANGED << cb, streak, trials >>
         [] tpc[t] = "ok_store" ->     \* self.success_count += 1: the store
              /\ cb' = [ cb EXCEPT !.success_count = tlocal[t].aux[1] + 1 ]
              /\ Goto(t, "ok_test")
              /\ UNCHANGED << tlocal, streak, trials >>
         [] tpc[t] = "ok_test" ->      \* if self.state == HALF_OPEN; return result
              /\ IF cb.state = "half_open"
                 THEN cb' = [ cb EXCEPT !.state = "closed" ] /\ trials' = 0
                 ELSE UNCHANGED << cb, trials >>
              /\ streak' = 0
              /\ Return(t)
         [] OTHER -> FALSE
    /\ UNCHANGED << now, ncalls, breakerThreadFrame >>

\* Time passes.
BreakerTick ==
    /\ now < MaxTime
    /\ now' = now + 1
    /\ UNCHANGED << cb, streak, trials, ncalls, threadVars, breakerThreadFrame >>

NextBreakerThreads ==
    \/ \E t \in Threads : BreakerCall(t)
    \/ \E t \in Threads : BreakerEnter(t)
    \/ \E t \in Threads : BreakerFailure(t)
    \/ \E t \in Threads : BreakerSuccess(t)
    \/ BreakerTick

SpecBreakerThreads == InitBreakerThreads /\ [][NextBreakerThreads]_vars

\* no call of the breaker is under way
BreakerQuiet == \A t \in DOMAIN tpc : tpc[t] = "idle"

\* some caller is inside _on_success or _on_failure
InBookkeeping ==
    \E t \in DOMAIN tpc : tpc[t] \in { "fail_load", "fail_store", "fail_time", "fail_test",
                                       "ok_zero", "ok_load", "ok_store", "ok_test" }

\* C36: in every state, calls under way on the breaker included (none of them
\* in the middle of the bookkeeping of its outcome), an Open or HalfOpen
\* breaker has failure_count >= failure_threshold and a last_failure_time, and
\* a Closed one has failure_count < failure_threshold.
C36_BreakerInvariant ==
    ~InBookkeeping =>
        /\ cb.state \in { "open", "half_open" } =>
              /\ cb.failure_count >= cb.failure_threshold
              /\ cb.last_failure_time # None
        /\ cb.state = "closed" => cb.failure_count < cb.failure_threshold

\* C27: the breaker is consistent under concurrent callers: once the calls
\* have returned, all of them failures and none a success, failure_count is
\* the number of those failures and the breaker is Open if that number has
\* reached failure_threshold; and while the breaker is HalfOpen at most one
\* caller is let through to the operation.
C27_StrictlyConsistent ==
    /\ trials <= 1
    /\ (BreakerQuiet /\ cb.success_count = 0)
          => /\ cb.failure_count = streak
             /\ streak >= cb.failure_threshold => cb.state = "open"

\* ------------------------------------- AlertManager, concurrent check_alerts
\* AlertManager holds no lock: two passes of check_alerts may overlap, each one
\* preempted between any two statements of the loop body.

alertThreadFrame == << cb, pc, breakerObs, cacheVars, quietVars, alert_rules, passPos,
                      passPhase, alertRet, branch >>

\* The passes under way.
Passes == { t \in DOMAIN tpc : tpc[t] # "idle" }

\* An alert manager with one rule, the first of _load_alert_rules, and
\* MaxThreads threads that run check_alerts.
InitAlertThreads ==
    /\ now = 0
    /\ cb = CircuitBreaker(1, 0)
    /\ pc = "idle"
    /\ lastAct = "init"
    /\ outcome = "none"
    /\ invoked = 0
    /\ streak = 0
    /\ trials = 0
    /\ trialFailedAt = None
    /\ ncalls = 0
    /\ QuietIdle
    /\ CacheIdle
    /\ \E c \in 1..MaxCooldown :
         alert_rules = << AlertRule("High CPU Usage", "system.cpu_percent", 80, ">", "warning",
                                    << "dashboard", "email" >>, c, TRUE) >>
    /\ rule_cooldowns = [ n \in { "High CPU Usage" } |-> None ]
    /\ alerts = << >>
    /\ alert_history = << >>
    /\ active_alerts = { }
    /\ passPos = 0
    /\ passPhase = "eval"
    /\ sent = [ attempted |-> << >>, failed |-> { } ]
    /\ alertRet = FALSE
    /\ current_value = None
    /\ branch = "none"
    /\ tpc = [ t \in Threads |-> "idle" ]
    /\ tlocal = [ t \in Threads |-> NoLocal ]

\* A thread calls check_alerts: the loop comes to the rule.
PassCall(t) ==
    /\ tpc[t] = "idle"
    /\ Len(alerts) + Cardinality(Passes) < MaxAlerts
    /\ Goto(t, "cooldown")
    /\ tlocal' = [ tlocal EXCEPT ![t].op = "check_alerts" ]
    /\ UNCHANGED << now, rule_cooldowns, alerts, alert_history, active_alerts, sent,
                    current_value, alertThreadFrame >>

\* The body of the loop of check_alerts for the rule, statement by statement.
PassBody(t) ==
    /\ tpc[t] \notin { "idle", "failed" }
    /\ tlocal[t].op = "check_alerts"
    /\ LET rule == alert_rules[1] IN
       CASE tpc[t] = "cooldown" ->     \* if not rule.enabled / if self._is_in_cooldown(rule)
              /\ IF ~rule.enabled \/ _is_in_cooldown(rule, now)
                 THEN Return(t)
                 ELSE Goto(t, "read") /\ UNCHANGED tlocal
              /\ UNCHANGED << rule_cooldowns, alerts, alert_history, active_alerts, sent,
                              current_value >>
         [] tpc[t] = "read" ->         \* _get_metric_value, _evaluate_threshold
              /\ \E src \in MetricSource(rule) :
                   LET v == _get_metric_value(src)
                   IN /\ current_value' = v
                      /\ IF v # None /\ _evaluate_threshold(v, rule.threshold, rule.operator)
                         THEN Keep(t, << v >>) /\ Goto(t, "create")
                         ELSE Return(t)
              /\ UNCHANGED << rule_cooldowns, alerts, alert_history, active_alerts, sent >>
         [] tpc[t] = "create" ->       \* alert = self._create_alert(rule, current_value)
              /\ _create_alert(rule, tlocal[t].aux[1])
              /\ Keep(t, << Len(alerts) + 1 >>)
              /\ Goto(t, "send")
              /\ UNCHANGED << rule_cooldowns, sent, current_value >>
         [] tpc[t] = "send" ->         \* self._send_notifications(alert, rule.channels)
              /\ \E fails \in SUBSET Deliveries(rule.channels) :
                   LET n == _send_notifications(rule.channels, fails)
                   IN sent' = [ attempted |-> n.attempted, failed |-> n.failed ]
              /\ Goto(t, "stamp")
              /\ UNCHANGED << rule_cooldowns, alerts, alert_history, active_alerts,
                              current_value, tlocal >>
         [] tpc[t] = "stamp" ->        \* self.rule_cooldowns[rule.name] = datetime.now()
              /\ rule_cooldowns' = [ rule_cooldowns EXCEPT ![rule.name] = now ]
              /\ Return(t)
              /\ UNCHANGED << alerts, alert_history, active_alerts, sent, current_value >>
         [] OTHER -> FALSE
    /\ UNCHANGED << now, alertThreadFrame >>

\* Time passes.
PassTick ==
    /\ now < MaxAlertTime
    /\ now' = now + 1
    /\ UNCHANGED << rule_cooldowns, alerts, alert_history, active_alerts, sent,
                    current_value, threadVars, alertThreadFrame >>

NextAlertThreads ==
    \/ \E t \in Threads : PassCall(t)
    \/ \E t \in Threads : PassBody(t)
    \/ PassTick

SpecAlertThreads == InitAlertThreads /\ [][NextAlertThreads]_vars

\* C28: the cooldown test and its update are atomic between passes: of the
\* passes that overlap on a rule that is satisfied one creates an alert, so
\* any two alerts of a rule (each one dispatched by the pass that created it)
\* lie at least the cooldown apart, and no two passes are dispatching at once.
C28_AtomicCooldown ==
    /\ \A i, j \in DOMAIN alerts :
          (i < j /\ alerts[i].rule_name = alerts[j].rule_name)
             => alerts[j].timestamp >= alerts[i].timestamp + alert_rules[1].cooldown_minutes
    /\ Cardinality({ t \in DOMAIN tpc : tpc[t] \in { "send", "stamp" } }) <= 1

\* ------------------------------------------- the main cycle and _maintenance
\* The methods of class Cache, the cache of the v2 orchestrator.
CacheMethods == { "get", "set", "delete", "clear", "get_stats" }

\* The optional components of the v2 orchestrator.
Optional == { "alerts", "ml", "providers" }

\* The statements of the try block of _maintenance, in their order: the sweep,
\* the component it belongs to ("core": always there) and the method called
\* on self.cache, if any.
MaintenanceSteps ==
    << [ sweep |-> "cache",     of |-> "core",      method |-> "cleanup" ],
       [ sweep |-> "logs",      of |-> "core",      method |-> "" ],
       [ sweep |-> "alerts",    of |-> "alerts",    method |-> "" ],
       [ sweep |-> "anomaly",   of |-> "ml",        method |-> "" ],
       [ sweep |-> "providers", of |-> "providers", method |-> "" ] >>

\* The sweeps _maintenance runs from statement i on: a statement of a
\* component that is not there is skipped, and the first one that raises (a
\* method the cache does not have, a component out of order) ends the try
\* block in its handler.
RECURSIVE MaintenanceFrom(_, _, _)
MaintenanceFrom(i, pres, brk) ==
    IF i > Len(MaintenanceSteps) THEN << >>
    ELSE LET st == MaintenanceSteps[i] IN
         IF st.of # "core" /\ st.of \notin pres
         THEN MaintenanceFrom(i + 1, pres, brk)
         ELSE IF (st.method # "" /\ st.method \notin CacheMethods) \/ st.of \in brk
         THEN << >>
         ELSE << st.sweep >> \o MaintenanceFrom(i + 1, pres, brk)

\* CloudDataOrchestratorV2._maintenance
_maintenance(pres, brk) == MaintenanceFrom(1, pres, brk)

cycleFrame == << now, cb, pc, breakerObs, retryVars, managerVars, cacheVars, alertVars,
                fallbackVars, pipelineVars, anomalyVars, threadVars, nestVars,
                health_status, phase, stopPc, joins, sample, featureVars, moreVars >>

\* The orchestrator has been started: the main loop is at its test.
InitCycle ==
    /\ now = 0
    /\ cb = CircuitBreaker(1, 0)
    /\ pc = "idle"
    /\ lastAct = "init"
    /\ outcome = "none"
    /\ invoked = 0
    /\ streak = 0
    /\ trials = 0
    /\ trialFailedAt = None
    /\ ncalls = 0
    /\ RetryIdle
    /\ ManagerIdle
    /\ CacheIdle
    /\ AlertIdle
    /\ FallbackIdle
    /\ PipelineIdle
    /\ AnomalyIdle
    /\ ThreadIdle
    /\ NestIdle
    /\ is_running = TRUE
    /\ health_status = "healthy"
    /\ present \in SUBSET Optional
    /\ broken \in { { } } \cup { { c } : c \in Optional }
    /\ phase = "started"
    /\ wpc = [ w \in Workers |-> IF w = "main" THEN "test" ELSE "none" ]
    /\ stopPc = "none"
    /\ joins = 0
    /\ sample = "none"
    /\ sweeps = << >>
    /\ FeatureIdle
    /\ MoreIdle

\* while self.is_running
CycleTest ==
    /\ wpc["main"] = "test"
    /\ wpc' = [ wpc EXCEPT !["main"] = IF LoopTest("main") THEN "pipeline" ELSE "done" ]
    /\ UNCHANGED << is_running, present, broken, sweeps, cycleFrame >>

\* await self._execute_data_pipeline(): its own handler takes what is raised
CyclePipeline ==
    /\ wpc["main"] = "pipeline"
    /\ wpc' = [ wpc EXCEPT !["main"] = "maintenance" ]
    /\ UNCHANGED << is_running, present, broken, sweeps, cycleFrame >>

\* await self._maintenance(): its own handler takes what is raised
CycleMaintenance ==
    /\ wpc["main"] = "maintenance"
    /\ sweeps' = _maintenance(present, broken)
    /\ wpc' = [ wpc EXCEPT !["main"] = "sleep" ]
    /\ UNCHANGED << is_running, present, broken, cycleFrame >>

\* await asyncio.sleep(main_cycle_interval)
CycleSleep ==
    /\ wpc["main"] = "sleep"
    /\ wpc' = [ wpc EXCEPT !["main"] = "test" ]
    /\ UNCHANGED << is_running, present, broken, sweeps, cycleFrame >>

\* stop() clears the flag.
CycleStop ==
    /\ is_running
    /\ is_running' = FALSE
    /\ UNCHANGED << present, broken, wpc, sweeps, cycleFrame >>

NextCycle == CycleTest \/ CyclePipeline \/ CycleMaintenance \/ CycleSleep \/ CycleStop

SpecCycle == InitCycle /\ [][NextCycle]_vars

\* _maintenance returns
MaintenanceStep == wpc["main"] = "maintenance" /\ wpc'["main"] = "sleep"

\* The sweeps s ran, as a set.
Ran(s) == { s[i] : i \in DOMAIN s }

\* C31: every iteration of the main cycle runs, after the collection step, each
\* maintenance sweep once: the cache sweep and the log sweep, and the alert
\* and anomaly sweeps of the components that are there and in order.
C31_MaintenanceSweeps ==
    [][ /\ wpc["main"] = "pipeline" => wpc'["main"] \in { "pipeline", "maintenance" }
        /\ MaintenanceStep =>
              /\ { "cache", "logs" } \subseteq Ran(sweeps')
              /\ ("alerts" \in present \ broken) => "alerts" \in Ran(sweeps')
              /\ ("ml" \in present \ broken) => "anomaly" \in Ran(sweeps')
              /\ Len(sweeps') = Cardinality(Ran(sweeps')) ]_vars

\* ------------------------------------------------------- feature windows
\* _prepare_features(data, window_size): one row per point of a series
\* shorter than the window (the point itself); else one row for each i in
\* range(window_size, len(data)), made from the window_size points before
\* point i, with data[i] as the current value.  Indices here are from 1.
_prepare_features(data, w) ==
    IF Len(data) < w
    THEN [ j \in 1..Len(data) |-> [ window |-> << >>, current_value |-> data[j] ] ]
    ELSE [ j \in 1..(Len(data) - w) |->
             [ window |-> SubSeq(data, j, j + w - 1), current_value |-> data[w + j] ] ]

\* The series whose features are taken.
FeatureSeries == UNION { [ 1..n -> { 1, 2 } ] : n \in 0..MaxPoints }

featureFrame == << now, cb, pc, breakerObs, retryVars, managerVars, cacheVars, alertVars,
                  fallbackVars, pipelineVars, zscore, detectorVars, threadVars, orchVars,
                  nestVars, sweeps, moreVars >>

\* A series and a window size.
InitFeatures ==
    /\ now = 0
    /\ cb = CircuitBreaker(1, 0)
    /\ pc = "idle"
    /\ lastAct = "init"
    /\ outcome = "none"
    /\ invoked = 0
    /\ streak = 0
    /\ trials = 0
    /\ trialFailedAt = None
    /\ ncalls = 0
    /\ RetryIdle
    /\ ManagerIdle
    /\ CacheIdle
    /\ AlertIdle
    /\ FallbackIdle
    /\ PipelineIdle
    /\ zscore = << >>
    /\ DetectorIdle
    /\ ThreadIdle
    /\ OrchIdle
    /\ NestIdle
    /\ sweeps = << >>
    /\ MoreIdle
    /\ series \in FeatureSeries
    /\ window \in 1..MaxWindow
    /\ features = << >>
    /\ scored = << >>

\* _detect_with_ml_model on the series, with a model that marks some rows.
ScoreFeatures ==
    /\ scored = << >>
    /\ LET c == AnomalyDetectionConfig("isolation_forest", window, DefaultMinSamples,
                                       DefaultRetrain)
           X == _prepare_features(series, window)
       IN /\ features' = X
          /\ \E marked \in SUBSET (0..(Len(X) - 1)) :
               scored' = [ marked |-> marked,
                           results |-> _detect_with_ml_model(
                                           "cpu", series, c,
                                           [ raises |-> FALSE, marked |-> marked ]) ]
    /\ UNCHANGED << series, window, featureFrame >>

NextFeatures == ScoreFeatures

SpecFeatures == InitFeatures /\ [][NextFeatures]_vars

\* C33: for a series of at least window_size points, the first window_size - 1
\* points have no feature vector and every later point has one, with that
\* point as its current value; a result reports the value of the point whose
\* feature vector was marked.
C33_FeatureWindows ==
    (scored # << >> /\ Len(series) >= window) =>
        /\ Len(features) = Len(series) - (window - 1)
        /\ \A j \in DOMAIN features :
              features[j].current_value = series[window - 1 + j]
        /\ \A k \in DOMAIN scored.results :
              \E j \in DOMAIN features :
                 /\ j - 1 \in scored.marked
                 /\ scored.results[k].index = window - 1 + j
                 /\ scored.results[k].value = features[j].current_value

\* ------------------------------------------------------------------
\* The anomaly worker of CloudDataOrchestratorV2 (_ml_worker): each iteration
\* reads one sample of the system metrics and hands every tracked metric to
\* detect_anomalies as a list of that one value.

\* the metrics of metrics_to_check, in their order
TrackedMetrics == << "system.cpu_percent", "system.memory_percent", "system.disk_percent" >>

\* What get_system_metrics can give: the percentages are ordinary (50) or far
\* out (500); disk_percent may be missing, and is then read as 0.
SystemSamples ==
    [ cpu_percent : { 50, 500 }, memory_percent : { 50, 500 }, disk_percent : { 0, 50, 500 } ]

\* metrics_to_check for the sample m: every series is the list of one value
metrics_to_check(m) ==
    << << m.cpu_percent >>, << m.memory_percent >>, << m.disk_percent >> >>

mlFrame == << cb, pc, breakerObs, retryVars, managerVars, cacheVars, alertVars,
             fallbackVars, pipelineVars, zscore, threadVars, nestVars, sweeps,
             featureVars, health_status, present, broken, phase, stopPc, joins, sample,
             restartVars, facadeVars >>

\* A started orchestrator with the anomaly detector enabled; its anomaly
\* worker is at the test of its loop.
InitMlWorker ==
    /\ now = 0
    /\ cb = CircuitBreaker(1, 0)
    /\ pc = "idle"
    /\ lastAct = "init"
    /\ outcome = "none"
    /\ invoked = 0
    /\ streak = 0
    /\ trials = 0
    /\ trialFailedAt = None
    /\ ncalls = 0
    /\ RetryIdle
    /\ ManagerIdle
    /\ CacheIdle
    /\ AlertIdle
    /\ FallbackIdle
    /\ PipelineIdle
    /\ AnomalyIdle
    /\ ThreadIdle
    /\ NestIdle
    /\ sweeps = << >>
    /\ FeatureIdle
    /\ MoreIdle
    /\ is_running = TRUE
    /\ health_status = "healthy"
    /\ present = { "ml" }
    /\ broken \in { { }, { "metrics" } }
    /\ phase = "started"
    /\ wpc = [ w \in Workers |-> IF w = "ml" THEN "test" ELSE "none" ]
    /\ stopPc = "none"
    /\ joins = 0
    /\ sample = "none"

\* while self.is_running and self.anomaly_detector
MlTest ==
    /\ wpc["ml"] = "test"
    /\ wpc' = [ wpc EXCEPT !["ml"] = IF LoopTest("ml") THEN "body" ELSE "done" ]
    /\ UNCHANGED << now, is_running, series, detectorVars, mlVars, mlFrame >>

\* system_metrics = self.metrics.get_system_metrics(), and the list
\* metrics_to_check built from it.  The call raises where the collector has no
\* such reading; the handler of the loop takes over.
MlRead ==
    /\ wpc["ml"] = "body"
    /\ IF "metrics" \in broken
       THEN /\ wpc' = [ wpc EXCEPT !["ml"] = Caught("ml") ]
            /\ UNCHANGED << system_metrics, mlPos >>
       ELSE /\ \E m \in SystemSamples : system_metrics' = m
            /\ mlPos' = 0
            /\ wpc' = [ wpc EXCEPT !["ml"] = "check" ]
    /\ UNCHANGED << now, is_running, series, detectorVars, anomalies_detected, mlFrame >>

\* One round of the for loop: detect_anomalies for the next tracked metric,
\* and the count of what it found; after the last round the sleep.
MlCheck ==
    /\ wpc["ml"] = "check"
    /\ IF mlPos = Len(TrackedMetrics)
       THEN /\ wpc' = [ wpc EXCEPT !["ml"] = "test" ]
            /\ UNCHANGED << series, detectorVars, mlVars >>
       ELSE LET metric_name == TrackedMetrics[mlPos + 1]
                values == metrics_to_check(system_metrics)[mlPos + 1]
            IN \E fit_ok \in BOOLEAN :
                 \E r \in { detect_anomalies(metric_name, values, fit_ok,
                                             [ raises |-> FALSE, marked |-> { } ], now) } :
                    /\ series' = values
                    /\ models' = r.models
                    /\ last_training' = r.last_training
                    /\ anomaly_history' = r.anomaly_history
                    /\ detectRet' = [ results |-> r.results, train_calls |-> r.train_calls ]
                    /\ anomalies_detected' = anomalies_detected + Len(r.results)
                    /\ mlPos' = mlPos + 1
                    /\ UNCHANGED << config, system_metrics, wpc >>
    /\ UNCHANGED << now, is_running, mlFrame >>

\* The sleep of the handler is over.
MlResume ==
    /\ wpc["ml"] = "recover"
    /\ wpc' = [ wpc EXCEPT !["ml"] = "test" ]
    /\ UNCHANGED << now, is_running, series, detectorVars, mlVars, mlFrame >>

\* stop() clears the flag.
MlStop ==
    /\ is_running
    /\ is_running' = FALSE
    /\ UNCHANGED << now, wpc, series, detectorVars, mlVars, mlFrame >>

\* Time passes.
MlTick ==
    /\ now < MaxDetectTime
    /\ now' = now + 1
    /\ UNCHANGED << is_running, wpc, series, detectorVars, mlVars, mlFrame >>

NextMlWorker == MlTest \/ MlRead \/ MlCheck \/ MlResume \/ MlStop \/ MlTick

SpecMlWorker == InitMlWorker /\ [][NextMlWorker]_vars

\* a round of the for loop that called detect_anomalies
MlCheckStep == mlPos' = mlPos + 1

\* C35: every series the anomaly worker passes to detect_anomalies has at
\* least min_samples values, and a round whose sample is far out adds to
\* anomalies_detected.
C35_WorkerFeedsSeries ==
    [][ MlCheckStep =>
          /\ Len(series') >= default_config.min_samples
          /\ (system_metrics.cpu_percent = 500 /\ mlPos = 0)
                => anomalies_detected' > anomalies_detected ]_vars

\* ------------------------------------------------------------------
\* Restart of CloudDataOrchestratorV2: stop() followed by start(), as the
\* API's /system/restart does.  A worker thread is named by its kind and by
\* the start() that created it.

Kinds == Workers \ { "main" }

Generations == 1..MaxStarts

\* the threads start() number g creates
SpawnedBy(g) ==
    LET started == { "monitoring" }
                     \cup (IF "alerts" \in present THEN { "alert" } ELSE { })
                     \cup (IF "ml" \in present THEN { "ml" } ELSE { })
    IN { << k, g >> : k \in started }

\* a thread that is in its loop: at the test or in the body (its sleep included)
Iterating(w) == wpc[w] \in { "test", "body" }

restartFrame == << now, cb, pc, breakerObs, retryVars, managerVars, cacheVars, alertVars,
                  fallbackVars, pipelineVars, anomalyVars, threadVars, nestVars, sweeps,
                  featureVars, mlVars, facadeVars, health_status, present, broken, phase,
                  joins, sample >>

\* A configured orchestrator that has not been started.
InitRestart ==
    /\ now = 0
    /\ cb = CircuitBreaker(1, 0)
    /\ pc = "idle"
    /\ lastAct = "init"
    /\ outcome = "none"
    /\ invoked = 0
    /\ streak = 0
    /\ trials = 0
    /\ trialFailedAt = None
    /\ ncalls = 0
    /\ RetryIdle
    /\ ManagerIdle
    /\ CacheIdle
    /\ AlertIdle
    /\ FallbackIdle
    /\ PipelineIdle
    /\ AnomalyIdle
    /\ ThreadIdle
    /\ NestIdle
    /\ sweeps = << >>
    /\ FeatureIdle
    /\ MoreIdle
    /\ is_running = FALSE
    /\ health_status = "healthy"
    /\ present \in { { "alerts", "ml" }, { "ml" } }
    /\ broken = { }
    /\ phase = "new"
    /\ wpc = [ w \in Kinds \X Generations |-> "none" ]
    /\ stopPc = "none"
    /\ joins = 0
    /\ sample = "none"

\* start(), called when no stop() is under way: it returns at once on a
\* running orchestrator, else sets the flag and starts the threads.
RestartStart ==
    /\ stopPc # "joining"
    /\ IF is_running
       THEN /\ startRet' = "ignored"
            /\ UNCHANGED << is_running, wpc, spawned >>
       ELSE /\ spawned < MaxStarts
            /\ is_running' = TRUE
            /\ spawned' = spawned + 1
            /\ wpc' = [ w \in DOMAIN wpc |->
                          IF w \in SpawnedBy(spawned + 1) THEN "test" ELSE wpc[w] ]
            /\ startRet' = "spawned"
    /\ stopPc' = "none"
    /\ UNCHANGED restartFrame

\* The while test of a worker thread: every worker tests self.is_running.
RestartTest(w) ==
    /\ wpc[w] = "test"
    /\ wpc' = [ wpc EXCEPT ![w] = IF is_running THEN "body" ELSE "done" ]
    /\ UNCHANGED << is_running, stopPc, restartVars, restartFrame >>

\* One loop body of a worker thread, its sleep included.
RestartBody(w) ==
    /\ wpc[w] = "body"
    /\ wpc' = [ wpc EXCEPT ![w] = "test" ]
    /\ UNCHANGED << is_running, stopPc, restartVars, restartFrame >>

\* stop(): clear the flag, then the joins.
RestartStop ==
    /\ is_running
    /\ stopPc # "joining"
    /\ is_running' = FALSE
    /\ stopPc' = "joining"
    /\ UNCHANGED << wpc, restartVars, restartFrame >>

\* The joins of stop() are over: each thread of the last start() has ended,
\* or is in a sleep that outlasts the 5 seconds of its join.
RestartJoined ==
    /\ stopPc = "joining"
    /\ \A w \in SpawnedBy(spawned) : wpc[w] \in { "done", "body" }
    /\ stopPc' = "returned"
    /\ UNCHANGED << is_running, wpc, restartVars, restartFrame >>

NextRestart ==
    \/ RestartStart
    \/ \E w \in Kinds \X Generations : RestartTest(w)
    \/ \E w \in Kinds \X Generations : RestartBody(w)
    \/ RestartStop
    \/ RestartJoined

SpecRestart == InitRestart /\ [][NextRestart]_vars

\* C37: at most one worker of each kind is in its loop; no thread of an
\* earlier start() enters a loop body once a later start() has run; and
\* start() on a running orchestrator starts nothing.
C37_OneWorkerPerKind ==
    [][ /\ \A k \in Kinds :
             Cardinality({ g \in Generations : Iterating(<< k, g >>) }) <= 1
        /\ \A k \in Kinds, g \in Generations :
             (g < spawned /\ wpc[<< k, g >>] = "test") => wpc'[<< k, g >>] # "body"
        /\ (startRet' = "ignored" /\ startRet # "ignored")
             => (wpc' = wpc /\ spawned' = spawned) ]_vars

\* ------------------------------------------------------------------
\* The two-tier Cache of the v2 system: a MemoryCache and a PersistentCache,
\* which keeps its items in a MemoryCache of its own and writes them to disk
\* after every change (the file is read only when the cache is built).

\* MemoryCache.set on the items c of one tier
MemoryCache_set(c, k, v, t) ==
    LET ttl == IF t = << >> THEN default_ttl ELSE t[1]
        c1  == Without(c, {k})
        c2  == IF Len(c1) >= max_size THEN Tail(c1) ELSE c1
    IN Append(c2, CacheItem(k, v, ttl, now))

\* MemoryCache.get on the items c of one tier: the value (Miss for the
\* default) and the items it leaves
MemoryCache_get(c, k) ==
    IF k \notin KeysOf(c) THEN [ value |-> Miss, cache |-> c ]
    ELSE IF is_expired(Item(c, k), now)
    THEN [ value |-> Miss, cache |-> Without(c, {k}) ]
    ELSE [ value |-> << Item(c, k).value >>, cache |-> move_to_end(c, k) ]

\* Cache.get on the tiers m and p: the memory tier first, the persistent tier
\* when that gives nothing
Cache_get(m, p, k) ==
    LET inMemory == MemoryCache_get(m, k)
    IN IF inMemory.value # Miss
       THEN [ value |-> inMemory.value, memory |-> inMemory.cache, persistent |-> p ]
       ELSE LET onDisk == MemoryCache_get(p, k)
            IN [ value |-> onDisk.value, memory |-> inMemory.cache,
                 persistent |-> onDisk.cache ]

facadeFrame == << cb, pc, breakerObs, retryVars, managerVars, alertVars, fallbackVars,
                 pipelineVars, anomalyVars, threadVars, orchVars, nestVars, sweeps,
                 featureVars, mlVars, restartVars, cache, touchOrder >>

\* Cache.__init__: two empty tiers of the same max_size and default_ttl.
InitFacade ==
    /\ now = 0
    /\ cb = CircuitBreaker(1, 0)
    /\ pc = "idle"
    /\ lastAct = "init"
    /\ outcome = "none"
    /\ invoked = 0
    /\ streak = 0
    /\ trials = 0
    /\ trialFailedAt = None
    /\ ncalls = 0
    /\ RetryIdle
    /\ ManagerIdle
    /\ max_size \in 1..MaxSize
    /\ default_ttl = MaxTTL
    /\ cache = << >>
    /\ ret = << >>
    /\ touchOrder = << >>
    /\ arg = << >>
    /\ did = "none"
    /\ AlertIdle
    /\ FallbackIdle
    /\ PipelineIdle
    /\ AnomalyIdle
    /\ ThreadIdle
    /\ OrchIdle
    /\ NestIdle
    /\ sweeps = << >>
    /\ FeatureIdle
    /\ MlIdle
    /\ RestartIdle
    /\ memory_cache = << >>
    /\ persistent_cache = << >>

\* Cache.set
FacadeSet ==
    \E k \in Keys, v \in Values, t \in TTLArgs :
        /\ memory_cache' = MemoryCache_set(memory_cache, k, v, t)
        /\ persistent_cache' = MemoryCache_set(persistent_cache, k, v, t)
        /\ ret' = << >>
        /\ arg' = << k, v, t >>
        /\ did' = "set"
        /\ UNCHANGED << now, max_size, default_ttl, facadeFrame >>

\* Cache.get
FacadeGet ==
    \E k \in Keys :
        LET r == Cache_get(memory_cache, persistent_cache, k)
        IN /\ memory_cache' = r.memory
           /\ persistent_cache' = r.persistent
           /\ ret' = r.value
           /\ arg' = << k >>
           /\ did' = IF r.value = Miss THEN "miss" ELSE "hit"
           /\ UNCHANGED << now, max_size, default_ttl, facadeFrame >>

\* Cache.delete
FacadeDelete ==
    \E k \in Keys :
        /\ memory_cache' = Without(memory_cache, {k})
        /\ persistent_cache' = Without(persistent_cache, {k})
        /\ ret' = << >>
        /\ arg' = << k >>
        /\ did' = "delete"
        /\ UNCHANGED << now, max_size, default_ttl, facadeFrame >>

\* Cache.clear
FacadeClear ==
    /\ memory_cache' = << >>
    /\ persistent_cache' = << >>
    /\ ret' = << >>
    /\ arg' = << >>
    /\ did' = "clear"
    /\ UNCHANGED << now, max_size, default_ttl, facadeFrame >>

\* Time passes.
FacadeTick ==
    /\ now < MaxCacheTime
    /\ now' = now + 1
    /\ UNCHANGED << max_size, default_ttl, ret, arg, did, facadeVars, facadeFrame >>

NextFacade == FacadeSet \/ FacadeGet \/ FacadeDelete \/ FacadeClear \/ FacadeTick

SpecFacade == InitFacade /\ [][NextFacade]_vars

\* the keys for which Cache.get, called now, returns a stored value
Retrievable(m, p) == { k \in Keys : Cache_get(m, p, k).value # Miss }

\* C38: the keys Cache.get returns a value for are never more than max_size,
\* and after delete(k) a get(k) is a miss.
C38_FacadeCapacity ==
    [][ /\ Cardinality(Retrievable(memory_cache', persistent_cache')) <= max_size
        /\ (did' = "delete" /\ arg' # << >>)
              => arg'[1] \notin Retrievable(memory_cache', persistent_cache') ]_vars

=============================================================================
